---------------------------- MODULE Spec2Model ----------------------------
(***************************************************************************)
(* A model of generalexam/ge_utils/front_utils.py: frontal grids (labels   *)
(* 0 = no front, 1 = warm front, 2 = cold front), their conversion to and  *)
(* from lists of grid points, dilation, binary closing, connected regions, *)
(* thermal-advection typing and the polyline-to-grid-point intersector.    *)
(*                                                                         *)
(* The state is what a caller of the module holds: the grid array it       *)
(* passes (numpy arrays are passed by reference, so a function that        *)
(* assigns into its argument changes the caller's array), the dictionary   *)
(* of index arrays, the other arguments of the last call and its return    *)
(* value.  Each action is one call of one public or private function.      *)
(***************************************************************************)
EXTENDS Integers, Sequences, FiniteSets, TLC

VARIABLES
    pc,                     \* name of the last call made ("start" before any)
    frontal_grid_matrix,    \* the caller's grid array: Cells -> integer label
    original_matrix,        \* the caller's grid before any call (history)
    frontal_grid_dict,      \* the caller's dictionary of index arrays
    args,                   \* the other arguments of the last call
    result                  \* the return value of the last call

vars == <<pc, frontal_grid_matrix, original_matrix, frontal_grid_dict, args,
          result>>

---------------------------------------------------------------------------
(* Bounds of the model.                                                    *)

NumRows == 3

NumCols == 3

MaxFrontCells == 3

MaxDilatedCells == 2

MaxPoints == 2

MaxDistance == 4

MaxWind == 1

MaxTheta == 1

PolylineMargin == 3

MaxFronts == 2

MaxLabelledCells == 1

MaxTimeSteps == 3

MaxTime == 3

MaxSeparationTime == 2

\* The largest number of labels passed to _apply_sep_time_one_front_type.
MaxLoopSteps == 4

\* The largest number of iterations of its while-loop that are followed.
MaxIterations == MaxLoopSteps + 3

\* Time series passed to apply_separation_time: the largest number of
\* labels, the largest time and the largest separation time.
MaxSeriesSteps == 5

MaxSeriesTime == 6

MaxSeriesSeparation == 3

\* The largest number of times passed to filter_by_hour and
\* filter_by_month, and of hours or months to keep.
MaxFilterTimes == 2

MaxFilterValues == 2

\* The largest number of valid times of a run of create_learning_examples
\* and the largest number of times per output file.
MaxRunTimes == 5

MaxTimesPerFile == 3

---------------------------------------------------------------------------
(* Module constants of front_utils.py.                                     *)

\* 1e-3 degrees, in units of half a tolerance
TOLERANCE_DEG == 2

NO_FRONT_INTEGER_ID == 0

WARM_FRONT_INTEGER_ID == 1

COLD_FRONT_INTEGER_ID == 2

ANY_FRONT_INTEGER_ID == 1

WARM_FRONT_STRING_ID == "warm"

COLD_FRONT_STRING_ID == "cold"

\* Grid spacing of the NARR grid, in the model's unit of length; buffer
\* distances are whole numbers of this unit, so that 1 is less than one
\* grid spacing and 3 is one and a half grid spacings.
GridSpacing == 2

\* The least buffer distance: max([buffer_distance_metres, 1.])
MinBufferDistance == 1

---------------------------------------------------------------------------
(* Grids and index arrays.                                                 *)

Rows == 0 .. (NumRows - 1)

Cols == 0 .. (NumCols - 1)

Cells == Rows \X Cols

\* Position of a cell in row-major (raster) order, the order of numpy.where.
RasterIndex(c) == c[1] * NumCols + c[2]

RECURSIVE SubsetsUpTo(_, _)
SubsetsUpTo(S, k) ==
    IF k = 0 THEN {{}}
    ELSE LET P == SubsetsUpTo(S, k - 1)
         IN  P \cup {T \cup {x} : T \in P, x \in S}

Range(s) == {s[k] : k \in DOMAIN s}

\* numpy.full((num_grid_rows, num_grid_columns), value, dtype=int)
FullMatrix(value) == [c \in Cells |-> value]

\* numpy.where(condition): the cells where the condition holds, as a row
\* array and a column array, both in raster order.
RECURSIVE SortedCells(_)
SortedCells(S) ==
    IF S = {} THEN <<>>
    ELSE LET first == CHOOSE c \in S :
                          \A d \in S : RasterIndex(c) <= RasterIndex(d)
         IN  <<first>> \o SortedCells(S \ {first})

NumpyWhere(S) ==
    LET cells == SortedCells(S)
    IN  [rows |-> [k \in DOMAIN cells |-> cells[k][1]],
         columns |-> [k \in DOMAIN cells |-> cells[k][2]]]

\* The (row, column) pairs named by a row array and a column array of equal
\* length, as numpy pairs them in matrix[rows, columns].
IndexPairs(rows, columns) == {<<rows[k], columns[k]>> : k \in DOMAIN rows}

\* matrix[rows, columns] = value
AssignAt(matrix, rows, columns, value) ==
    [c \in DOMAIN matrix |->
        IF c \in IndexPairs(rows, columns) THEN value ELSE matrix[c]]

\* Sequences over S of length at most n.
RECURSIVE SeqsUpTo(_, _)
SeqsUpTo(S, n) ==
    IF n = 0 THEN {<<>>}
    ELSE LET P == SeqsUpTo(S, n - 1)
         IN  P \cup {Append(s, x) : s \in {t \in P : Len(t) = n - 1}, x \in S}

\* A grid with warm fronts at the cells of W and cold fronts at the other
\* cells of S.
MakeGrid(S, W) ==
    [c \in Cells |-> IF c \in W THEN WARM_FRONT_INTEGER_ID
                     ELSE IF c \in S THEN COLD_FRONT_INTEGER_ID
                     ELSE NO_FRONT_INTEGER_ID]

\* A dictionary whose warm index arrays list the first n cells of t and
\* whose cold index arrays list the rest.
MakeDict(t, n) ==
    [warm_front_row_indices |-> [k \in 1 .. n |-> t[k][1]],
     warm_front_column_indices |-> [k \in 1 .. n |-> t[k][2]],
     cold_front_row_indices |-> [k \in 1 .. (Len(t) - n) |-> t[n + k][1]],
     cold_front_column_indices |->
         [k \in 1 .. (Len(t) - n) |-> t[n + k][2]]]

EmptyDict ==
    [warm_front_row_indices |-> <<>>, warm_front_column_indices |-> <<>>,
     cold_front_row_indices |-> <<>>, cold_front_column_indices |-> <<>>]

NoArgs == [kind |-> "none"]

NoResult == [kind |-> "none"]

---------------------------------------------------------------------------
(* frontal_grid_to_points and frontal_points_to_grid.                      *)

\* A variant that checks the upper limit only.
IsTernaryWithoutLowerLimit(matrix) ==
    \A c \in DOMAIN matrix : matrix[c] <= COLD_FRONT_INTEGER_ID

\* The error_checking assertions on a frontal grid: every value in 0..2.
IsTernary(matrix) ==
    \A c \in DOMAIN matrix :
        matrix[c] >= NO_FRONT_INTEGER_ID /\ matrix[c] <= COLD_FRONT_INTEGER_ID

\* A variant that reads every front cell as a warm-front cell.
FrontalGridToPointsAnyFront(matrix) ==
    LET warm == NumpyWhere({c \in DOMAIN matrix :
                               matrix[c] # NO_FRONT_INTEGER_ID})
        cold == NumpyWhere({c \in DOMAIN matrix :
                               matrix[c] = COLD_FRONT_INTEGER_ID})
    IN  [warm_front_row_indices |-> warm.rows,
         warm_front_column_indices |-> warm.columns,
         cold_front_row_indices |-> cold.rows,
         cold_front_column_indices |-> cold.columns]

FrontalGridToPoints(matrix) ==
    LET warm == NumpyWhere({c \in DOMAIN matrix :
                               matrix[c] = WARM_FRONT_INTEGER_ID})
        cold == NumpyWhere({c \in DOMAIN matrix :
                               matrix[c] = COLD_FRONT_INTEGER_ID})
    IN  [warm_front_row_indices |-> warm.rows,
         warm_front_column_indices |-> warm.columns,
         cold_front_row_indices |-> cold.rows,
         cold_front_column_indices |-> cold.columns]

\* A variant that writes ANY_FRONT_INTEGER_ID at the cold-front points.
FrontalPointsToGridAnyFront(dict) ==
    LET empty == FullMatrix(NO_FRONT_INTEGER_ID)
        withWarm == AssignAt(empty, dict.warm_front_row_indices,
                             dict.warm_front_column_indices,
                             WARM_FRONT_INTEGER_ID)
    IN  AssignAt(withWarm, dict.cold_front_row_indices,
                 dict.cold_front_column_indices, ANY_FRONT_INTEGER_ID)

FrontalPointsToGrid(dict) ==
    LET empty == FullMatrix(NO_FRONT_INTEGER_ID)
        withWarm == AssignAt(empty, dict.warm_front_row_indices,
                             dict.warm_front_column_indices,
                             WARM_FRONT_INTEGER_ID)
    IN  AssignAt(withWarm, dict.cold_front_row_indices,
                 dict.cold_front_column_indices, COLD_FRONT_INTEGER_ID)

\* The caller starts from a dictionary of index arrays (in any order, with
\* repeats and with cells listed under both types, of at most MaxPoints
\* entries in all) or from a grid with at most MaxFrontCells front cells.
InitRoundTrip ==
    /\ pc = "start"
    /\ \/ /\ \E t \in SeqsUpTo(Cells, MaxPoints) :
                 \E n \in 0 .. Len(t) : frontal_grid_dict = MakeDict(t, n)
          /\ frontal_grid_matrix = FullMatrix(NO_FRONT_INTEGER_ID)
       \/ /\ \E S \in SubsetsUpTo(Cells, MaxFrontCells) :
                 \E W \in SUBSET S : frontal_grid_matrix = MakeGrid(S, W)
          /\ frontal_grid_dict = EmptyDict
    /\ original_matrix = frontal_grid_matrix
    /\ args = NoArgs
    /\ result = NoResult

\* frontal_grid_dict = frontal_grid_to_points(frontal_grid_matrix)
CallFrontalGridToPoints ==
    /\ pc' = "frontal_grid_to_points"
    /\ IF IsTernary(frontal_grid_matrix)
       THEN /\ frontal_grid_dict' = FrontalGridToPoints(frontal_grid_matrix)
            /\ result' = [kind |-> "dict"]
       ELSE /\ frontal_grid_dict' = frontal_grid_dict
            /\ result' = [kind |-> "error"]
    /\ UNCHANGED <<frontal_grid_matrix, original_matrix, args>>

\* frontal_grid_matrix = frontal_points_to_grid(frontal_grid_dict, M, N)
CallFrontalPointsToGrid ==
    /\ pc' = "frontal_points_to_grid"
    /\ frontal_grid_matrix' = FrontalPointsToGrid(frontal_grid_dict)
    /\ result' = [kind |-> "matrix"]
    /\ UNCHANGED <<original_matrix, frontal_grid_dict, args>>

NextRoundTrip == CallFrontalGridToPoints \/ CallFrontalPointsToGrid

SpecRoundTrip == InitRoundTrip /\ [][NextRoundTrip]_vars

---------------------------------------------------------------------------
(* buffer_distance_to_narr_mask, dilate_binary_narr_image and              *)
(* dilate_ternary_narr_image.                                              *)

Max2(a, b) == IF a >= b THEN a ELSE b

\* A matrix that is not a grid (a dilation kernel): its shape and values.
KernelIndices(numRows, numCols) ==
    (0 .. (numRows - 1)) \X (0 .. (numCols - 1))

Kernel(numRows, numCols, values) ==
    [num_rows |-> numRows, num_columns |-> numCols, values |-> values]

\* A variant that takes the remainder where the code takes the quotient.
MaxRowOrColumnOffsetModulo(buffer_distance) == buffer_distance % GridSpacing

\* int(numpy.floor(float(buffer_distance_metres) / grid_spacing_metres))
MaxRowOrColumnOffset(buffer_distance) == buffer_distance \div GridSpacing

\* A variant that takes one grid spacing as the least distance.
CoercedDistanceToGridSpacing(distance_metres) ==
    Max2(distance_metres, GridSpacing)

\* max([distance_metres, 1.])
CoercedDistance(distance_metres) == Max2(distance_metres, MinBufferDistance)

\* The mask of buffer_distance_to_narr_mask for a distance > 0, as integers
\* (.astype(int)): 1 where grid_spacing * sqrt(dr^2 + dc^2) <= distance,
\* compared on the squares.
BufferDistanceToNarrMask(buffer_distance_metres) ==
    LET distance == CoercedDistance(buffer_distance_metres)
        offset == MaxRowOrColumnOffset(distance)
        InBuffer(i, j) ==
            IF GridSpacing * GridSpacing
                   * ((i - offset) * (i - offset) + (j - offset) * (j - offset))
                   <= distance * distance
            THEN 1 ELSE 0
        size == 2 * offset + 1
    IN  Kernel(size, size,
               [x \in KernelIndices(size, size) |-> InBuffer(x[1], x[2])])

\* A variant without the assertion on the sum of the kernel.
IsValidKernelWithoutSum(kernel) ==
    \A x \in DOMAIN kernel.values :
        kernel.values[x] >= 0 /\ kernel.values[x] <= 1

\* The assertions of dilate_binary_narr_image on the kernel: every value in
\* {0, 1} and at least one value of 1.
IsValidKernel(kernel) ==
    /\ \A x \in DOMAIN kernel.values :
           kernel.values[x] >= 0 /\ kernel.values[x] <= 1
    /\ \E x \in DOMAIN kernel.values : kernel.values[x] = 1

\* cv2.dilate(matrix, kernel, iterations=1): the anchor is the kernel's
\* centre (num_columns // 2, num_rows // 2); a cell c becomes 1 iff for some
\* nonzero kernel element x the cell c + x - anchor lies in the image and is
\* nonzero there (cells outside the image never count).  Computed from the
\* nonzero cells q of the image: each covers the cells q - (x - anchor).
Cv2Dilate(matrix, kernel) ==
    LET anchorRow == kernel.num_rows \div 2
        anchorCol == kernel.num_columns \div 2
        offsets == {<<x[1] - anchorRow, x[2] - anchorCol>> :
                       x \in {y \in DOMAIN kernel.values :
                                 kernel.values[y] # 0}}
        nonzero == {q \in DOMAIN matrix : matrix[q] # 0}
        covered == {<<q[1] - o[1], q[2] - o[2]>> : q \in nonzero,
                                                   o \in offsets}
    IN  [c \in DOMAIN matrix |-> IF c \in covered THEN 1 ELSE 0]

\* The arguments of a dilation besides the matrix: a dilation distance, or
\* an explicit kernel (then the distance is not read).
DistanceArgs(distance) ==
    [kind |-> "dilation", kernel_given |-> FALSE, distance |-> distance,
     kernel |-> Kernel(0, 0, [x \in KernelIndices(0, 0) |-> 0])]

KernelArgs(kernel) ==
    [kind |-> "dilation", kernel_given |-> TRUE, distance |-> 0,
     kernel |-> kernel]

Error == [kind |-> "error"]

\* dilate_binary_narr_image: an error, or the dilated matrix (a new array).
DilateBinaryNarrImage(binary_matrix, dilationArgs) ==
    IF \E c \in DOMAIN binary_matrix :
           binary_matrix[c] < 0 \/ binary_matrix[c] > 1
    THEN Error
    ELSE IF ~dilationArgs.kernel_given /\ dilationArgs.distance <= 0
    THEN Error
    ELSE LET kernel ==
                 IF dilationArgs.kernel_given THEN dilationArgs.kernel
                 ELSE BufferDistanceToNarrMask(dilationArgs.distance)
         IN  IF ~IsValidKernel(kernel) THEN Error
             ELSE [kind |-> "matrix",
                   matrix |-> Cv2Dilate(binary_matrix, kernel)]

\* The binary matrix of one front type, built by dilate_ternary_narr_image.
BinaryMatrixOf(ternary_matrix, integer_id) ==
    [c \in DOMAIN ternary_matrix |->
        IF ternary_matrix[c] = integer_id THEN ANY_FRONT_INTEGER_ID
        ELSE NO_FRONT_INTEGER_ID]

CellsWith(matrix, integer_id) == {c \in DOMAIN matrix : matrix[c] = integer_id}

\* numpy.min(row_diffs ** 2 + column_diffs ** 2) over a non-empty set of
\* front cells.
MinSquaredDistance(c, front_cells) ==
    LET SquaredDistance(d) ==
            (c[1] - d[1]) * (c[1] - d[1]) + (c[2] - d[2]) * (c[2] - d[2])
        nearest == CHOOSE d \in front_cells :
                       \A e \in front_cells :
                           SquaredDistance(d) <= SquaredDistance(e)
    IN  SquaredDistance(nearest)

\* A variant whose comparison is strict, so that ties go to the warm front.
ColdFrontWinsStrict(cold_distance, warm_distance) ==
    cold_distance < warm_distance

\* this_min_cold_front_distance <= this_min_warm_front_distance
ColdFrontWins(cold_distance, warm_distance) == cold_distance <= warm_distance

\* A variant that resolves no cell.
ResolveNothing(ternary_matrix, cold_matrix, warm_matrix) ==
    [cold |-> CellsWith(cold_matrix, ANY_FRONT_INTEGER_ID),
     warm |-> CellsWith(warm_matrix, ANY_FRONT_INTEGER_ID)]

\* The loop of dilate_ternary_narr_image over the cells in both dilated
\* matrices: the cells left in binary_cold_front_matrix and in
\* binary_warm_front_matrix once each such cell is taken out of one.
ResolveBothFronts(ternary_matrix, cold_matrix, warm_matrix) ==
    LET coldCells == CellsWith(ternary_matrix, COLD_FRONT_INTEGER_ID)
        warmCells == CellsWith(ternary_matrix, WARM_FRONT_INTEGER_ID)
        both == {c \in DOMAIN ternary_matrix :
                    /\ cold_matrix[c] = ANY_FRONT_INTEGER_ID
                    /\ warm_matrix[c] = ANY_FRONT_INTEGER_ID}
        coldWins == {c \in both :
                        ColdFrontWins(MinSquaredDistance(c, coldCells),
                                      MinSquaredDistance(c, warmCells))}
    IN  [cold |-> {c \in DOMAIN ternary_matrix :
                      /\ cold_matrix[c] = ANY_FRONT_INTEGER_ID
                      /\ c \notin (both \ coldWins)},
         warm |-> {c \in DOMAIN ternary_matrix :
                      /\ warm_matrix[c] = ANY_FRONT_INTEGER_ID
                      /\ c \notin coldWins}]

\* dilate_ternary_narr_image: an error, or the matrix as it is assigned
\* into the caller's array and returned (cold cells are assigned first,
\* warm cells after them).
DilateTernaryNarrImage(ternary_matrix, dilationArgs) ==
    IF ~IsTernary(ternary_matrix) THEN Error
    ELSE
    LET cold == DilateBinaryNarrImage(
                    BinaryMatrixOf(ternary_matrix, COLD_FRONT_INTEGER_ID),
                    dilationArgs)
        warm == DilateBinaryNarrImage(
                    BinaryMatrixOf(ternary_matrix, WARM_FRONT_INTEGER_ID),
                    dilationArgs)
    IN  IF cold.kind = "error" \/ warm.kind = "error" THEN Error
        ELSE
        LET masks == ResolveBothFronts(ternary_matrix, cold.matrix,
                                       warm.matrix)
        IN  [kind |-> "matrix",
             matrix |-> [c \in DOMAIN ternary_matrix |->
                            IF c \in masks.warm THEN WARM_FRONT_INTEGER_ID
                            ELSE IF c \in masks.cold
                                 THEN COLD_FRONT_INTEGER_ID
                            ELSE ternary_matrix[c]]]

\* The explicit kernels a caller passes: a 3-by-3 kernel with its centre
\* off, a 1-by-2 kernel (anchored on its right element), a kernel of zeros
\* and a kernel holding a 2.
InputKernels ==
    {Kernel(3, 3, [x \in KernelIndices(3, 3) |->
                      IF x = <<1, 1>> THEN 0 ELSE 1]),
     Kernel(1, 2, [x \in KernelIndices(1, 2) |-> 1]),
     Kernel(3, 3, [x \in KernelIndices(3, 3) |-> 0]),
     Kernel(1, 1, [x \in KernelIndices(1, 1) |-> 2])}

InputDilationArgs ==
    {DistanceArgs(d) : d \in 0 .. MaxDistance}
        \cup {KernelArgs(k) : k \in InputKernels}

\* The caller starts from a grid with at most maxCells front cells.
InitGrid(maxCells) ==
    /\ pc = "start"
    /\ \E S \in SubsetsUpTo(Cells, maxCells) :
           \E W \in SUBSET S : frontal_grid_matrix = MakeGrid(S, W)
    /\ original_matrix = frontal_grid_matrix
    /\ frontal_grid_dict = EmptyDict
    /\ args = NoArgs
    /\ result = NoResult

\* dilate_binary_narr_image(frontal_grid_matrix, ...): the result is a new
\* array; the caller's array is left as it is.
CallDilateBinaryNarrImage ==
    /\ pc = "start"
    /\ \E a \in InputDilationArgs :
           /\ args' = a
           /\ result' = DilateBinaryNarrImage(frontal_grid_matrix, a)
    /\ pc' = "dilate_binary_narr_image"
    /\ UNCHANGED <<frontal_grid_matrix, original_matrix, frontal_grid_dict>>

\* dilate_ternary_narr_image(frontal_grid_matrix, ...): the result is the
\* caller's array itself, assigned in place.
CallDilateTernaryNarrImage ==
    /\ pc = "start"
    /\ \E a \in InputDilationArgs :
           /\ args' = a
           /\ result' = DilateTernaryNarrImage(frontal_grid_matrix, a)
    /\ frontal_grid_matrix' =
           IF result'.kind = "matrix" THEN result'.matrix
           ELSE frontal_grid_matrix
    /\ pc' = "dilate_ternary_narr_image"
    /\ UNCHANGED <<original_matrix, frontal_grid_dict>>

\* buffer_distance_to_narr_mask(buffer_distance_metres): an error for a
\* distance that is not > 0 (assert_is_greater), or the mask.
CallBufferDistanceToNarrMask ==
    /\ pc = "start"
    /\ \E d \in 0 .. MaxDistance :
           /\ args' = DistanceArgs(d)
           /\ result' = IF d <= 0 THEN Error
                        ELSE [kind |-> "mask",
                              mask |-> BufferDistanceToNarrMask(d)]
    /\ pc' = "buffer_distance_to_narr_mask"
    /\ UNCHANGED <<frontal_grid_matrix, original_matrix, frontal_grid_dict>>

NextDilate ==
    \/ CallDilateBinaryNarrImage
    \/ CallDilateTernaryNarrImage
    \/ CallBufferDistanceToNarrMask

SpecDilate == InitGrid(MaxDilatedCells) /\ [][NextDilate]_vars

\* Integers that are no front label.
InvalidLabels == {0 - 1, COLD_FRONT_INTEGER_ID + 1}

\* The caller starts from a grid with at most MaxLabelledCells front cells
\* in which one cell may hold an integer that is no label.
InitAnyGrid ==
    /\ pc = "start"
    /\ \E S \in SubsetsUpTo(Cells, MaxLabelledCells) :
       \E W \in SUBSET S :
           \/ frontal_grid_matrix = MakeGrid(S, W)
           \/ \E c \in Cells : \E v \in InvalidLabels :
                  frontal_grid_matrix = [MakeGrid(S, W) EXCEPT ![c] = v]
    /\ original_matrix = frontal_grid_matrix
    /\ frontal_grid_dict = EmptyDict
    /\ args = NoArgs
    /\ result = NoResult

NextValidation ==
    \/ CallFrontalGridToPoints
    \/ CallDilateBinaryNarrImage
    \/ CallDilateTernaryNarrImage

SpecValidation == InitAnyGrid /\ [][NextValidation]_vars

---------------------------------------------------------------------------
(* _close_frontal_grid_matrix and frontal_grid_to_regions.                 *)

\* STRUCTURE_MATRIX_FOR_BINARY_CLOSING = numpy.ones((3, 3)), as the offsets
\* of its elements from its centre.
StructureOffsets == (-1 .. 1) \X (-1 .. 1)

\* scipy binary_dilation of a set of cells by the structure: the cells of
\* the image that the structure, centred on them, overlaps the set.
BinaryDilation(cells) ==
    {<<q[1] - o[1], q[2] - o[2]>> : q \in cells, o \in StructureOffsets}
        \cap Cells

\* scipy binary_erosion with border_value=0: the cells on which the centred
\* structure fits inside the set; cells outside the image are not in it.
BinaryErosion(cells) ==
    {c \in cells :
        \A o \in StructureOffsets : <<c[1] + o[1], c[2] + o[2]>> \in cells}

\* A variant that dilates and does not erode.
BinaryClosingWithoutErosion(cells) == BinaryDilation(cells)

\* scipy binary_closing(..., iterations=1): dilation, then erosion.
BinaryClosing(cells) == BinaryErosion(BinaryDilation(cells))

\* A variant that assigns cold first and warm after it.
CloseFrontalGridMatrixWarmLast(matrix) ==
    LET warm == BinaryClosing(CellsWith(matrix, WARM_FRONT_INTEGER_ID))
        cold == BinaryClosing(CellsWith(matrix, COLD_FRONT_INTEGER_ID))
    IN  [c \in DOMAIN matrix |->
            IF c \in warm THEN WARM_FRONT_INTEGER_ID
            ELSE IF c \in cold THEN COLD_FRONT_INTEGER_ID
            ELSE matrix[c]]

\* _close_frontal_grid_matrix: the values assigned into the argument array:
\* warm where the closed warm mask is set, then cold where the closed cold
\* mask is set.
CloseFrontalGridMatrix(matrix) ==
    LET warm == BinaryClosing(CellsWith(matrix, WARM_FRONT_INTEGER_ID))
        cold == BinaryClosing(CellsWith(matrix, COLD_FRONT_INTEGER_ID))
    IN  [c \in DOMAIN matrix |->
            IF c \in cold THEN COLD_FRONT_INTEGER_ID
            ELSE IF c \in warm THEN WARM_FRONT_INTEGER_ID
            ELSE matrix[c]]

\* Two distinct cells are neighbours under connectivity=2 (8 neighbours).
Adjacent(c, d) ==
    /\ c # d
    /\ c[1] - d[1] \in -1 .. 1
    /\ c[2] - d[2] \in -1 .. 1

\* A variant that joins any two neighbouring front cells, of equal value
\* or not.
SameClassAnyFront(matrix, c, d) ==
    matrix[c] # NO_FRONT_INTEGER_ID /\ matrix[d] # NO_FRONT_INTEGER_ID

\* skimage.measure.label joins two neighbouring pixels when they have the
\* same value.
SameClass(matrix, c, d) == matrix[c] = matrix[d]

\* The connected component of a set of seed cells.
RECURSIVE Grow(_, _)
Grow(matrix, component) ==
    LET next == component \cup
                    {d \in DOMAIN matrix :
                        \E c \in component :
                            Adjacent(c, d) /\ SameClass(matrix, c, d)}
    IN  IF next = component THEN component ELSE Grow(matrix, next)

\* The components of the cells not yet labelled, in raster order of their
\* first cells.
RECURSIVE Components(_, _)
Components(matrix, unlabelled) ==
    IF unlabelled = {} THEN <<>>
    ELSE LET first == CHOOSE c \in unlabelled :
                          \A d \in unlabelled :
                              RasterIndex(c) <= RasterIndex(d)
             component == Grow(matrix, {first})
         IN  <<component>> \o Components(matrix, unlabelled \ component)

\* skimage.measure.label(matrix, connectivity=2): the region matrix; 0 is
\* the background (the pixels of value 0), the components are numbered from
\* 1 in raster order.
LabelImage(matrix) ==
    LET components ==
            Components(matrix,
                       {c \in DOMAIN matrix : matrix[c] # NO_FRONT_INTEGER_ID})
    IN  [c \in DOMAIN matrix |->
            IF matrix[c] = NO_FRONT_INTEGER_ID THEN 0
            ELSE CHOOSE k \in DOMAIN components : c \in components[k]]

\* numpy.max(region_matrix)
MaxOf(matrix) ==
    CHOOSE m \in Range(matrix) : \A v \in Range(matrix) : v <= m

\* A variant that looks for region i where the code looks for region i + 1.
RegionNumberOffByOne(i) == i

\* The number in region_matrix of the region at index i of the lists (from
\* 0, as in the loop).
RegionNumber(i) == i + 1

\* frontal_grid_to_regions, given the matrix after closing.
RegionsOfClosedMatrix(closed) ==
    LET region_matrix == LabelImage(closed)
        num_regions == MaxOf(region_matrix)
        Where(i) == NumpyWhere(CellsWith(region_matrix, RegionNumber(i)))
        TypeOf(i) ==
            LET this_integer_id ==
                    closed[<<Where(i).rows[1], Where(i).columns[1]>>]
            IN  IF this_integer_id = WARM_FRONT_INTEGER_ID
                THEN WARM_FRONT_STRING_ID
                ELSE IF this_integer_id = COLD_FRONT_INTEGER_ID
                THEN COLD_FRONT_STRING_ID
                ELSE ""
    IN  [kind |-> "regions",
         row_indices_by_region |->
             [k \in 1 .. num_regions |-> Where(k - 1).rows],
         column_indices_by_region |->
             [k \in 1 .. num_regions |-> Where(k - 1).columns],
         front_type_by_region |-> [k \in 1 .. num_regions |-> TypeOf(k - 1)]]

FrontalGridToRegions(matrix) ==
    RegionsOfClosedMatrix(CloseFrontalGridMatrix(matrix))

\* _close_frontal_grid_matrix(frontal_grid_matrix): assigns into the
\* caller's array and returns it.
CallCloseFrontalGridMatrix ==
    /\ pc' = "_close_frontal_grid_matrix"
    /\ frontal_grid_matrix' = CloseFrontalGridMatrix(frontal_grid_matrix)
    /\ args' = NoArgs
    /\ result' = [kind |-> "matrix", matrix |-> frontal_grid_matrix']
    /\ UNCHANGED <<original_matrix, frontal_grid_dict>>

\* frontal_grid_to_regions(frontal_grid_matrix): closes the caller's array
\* in place and returns the dictionary of regions.
CallFrontalGridToRegions ==
    /\ pc' = "frontal_grid_to_regions"
    /\ frontal_grid_matrix' = CloseFrontalGridMatrix(frontal_grid_matrix)
    /\ args' = NoArgs
    /\ result' = RegionsOfClosedMatrix(frontal_grid_matrix')
    /\ UNCHANGED <<original_matrix, frontal_grid_dict>>

NextRegions == CallCloseFrontalGridMatrix \/ CallFrontalGridToRegions

SpecRegions == InitGrid(MaxFrontCells) /\ [][NextRegions]_vars

---------------------------------------------------------------------------
(* _get_thermal_advection_over_grid and get_frontal_types_over_grid.       *)

\* numpy.gradient along one axis with spacing h, times 2h: the centred
\* difference f[i+1] - f[i-1] at an interior point, and twice the one-sided
\* difference at the first and at the last point (edge_order=1).  before
\* and after are the neighbours of c along the axis.
GradientTimes2h(f, c, before, after) ==
    IF before \notin DOMAIN f THEN 2 * (f[after] - f[c])
    ELSE IF after \notin DOMAIN f THEN 2 * (f[c] - f[before])
    ELSE f[after] - f[before]

\* x runs along the columns (axis 1), y along the rows (axis 0).
XGradientTimes2dx(f, c) ==
    GradientTimes2h(f, c, <<c[1], c[2] - 1>>, <<c[1], c[2] + 1>>)

YGradientTimes2dy(f, c) ==
    GradientTimes2h(f, c, <<c[1] - 1, c[2]>>, <<c[1] + 1, c[2]>>)

\* The advection -(u * dtheta/dx + v * dtheta/dy) at cell c, times
\* 2 * dx * dy (which is positive, so the sign is that of the advection).
AdvectionTimes2dxdy(a, c) ==
    -(a.u[c] * XGradientTimes2dx(a.theta, c) * a.dy
      + a.v[c] * YGradientTimes2dy(a.theta, c) * a.dx)

\* A variant that takes zero advection for warm.
IsWarmAdvectionOrZero(advection) == advection >= 0

\* thermal_advection_matrix > 0.
IsWarmAdvection(advection) == advection > 0

GetFrontalTypesOverGrid(a) ==
    [c \in Cells |->
        IF a.binary_matrix[c] /\ ~IsWarmAdvection(AdvectionTimes2dxdy(a, c))
        THEN COLD_FRONT_INTEGER_ID
        ELSE IF a.binary_matrix[c] /\ IsWarmAdvection(AdvectionTimes2dxdy(a, c))
        THEN WARM_FRONT_INTEGER_ID
        ELSE NO_FRONT_INTEGER_ID]

\* The fields a caller passes: a thermal field that is a plane plus a bump
\* at one cell, a u-wind with or without shear along the rows, a uniform
\* v-wind, a front mask that is all cells or every second cell, and grid
\* spacings of 1 or 2.
AdvectionArgs(slopeY, slopeX, bumpCell, bump, u0, shear, v0, parity, dx, dy) ==
    [kind |-> "fields",
     theta |-> [c \in Cells |-> slopeY * c[1] + slopeX * c[2]
                                 + (IF c = bumpCell THEN bump ELSE 0)],
     u |-> [c \in Cells |-> u0 + shear * c[1]],
     v |-> [c \in Cells |-> v0],
     binary_matrix |-> [c \in Cells |->
                           parity = 2 \/ RasterIndex(c) % 2 = parity],
     dx |-> dx, dy |-> dy]

InitAdvection ==
    /\ pc = "start"
    /\ frontal_grid_matrix = FullMatrix(NO_FRONT_INTEGER_ID)
    /\ original_matrix = frontal_grid_matrix
    /\ frontal_grid_dict = EmptyDict
    /\ \E slopeY, slopeX \in (0 - MaxTheta) .. MaxTheta :
       \E bumpCell \in Cells, bump \in 0 .. 1 :
       \E u0, v0 \in (0 - MaxWind) .. MaxWind :
       \E shear \in 0 .. 1, parity \in 0 .. 2 :
       \E spacing \in {<<1, 1>>, <<1, 2>>, <<2, 1>>} :
           /\ bump = 0 => bumpCell = <<0, 0>>
           /\ args = AdvectionArgs(slopeY, slopeX, bumpCell, bump, u0, shear,
                                   v0, parity, spacing[1], spacing[2])
    /\ result = NoResult

\* get_frontal_types_over_grid(u, v, theta, binary_matrix, dx, dy): returns
\* a new grid.
CallGetFrontalTypesOverGrid ==
    /\ pc = "start"
    /\ pc' = "get_frontal_types_over_grid"
    /\ result' = [kind |-> "matrix", matrix |-> GetFrontalTypesOverGrid(args)]
    /\ UNCHANGED <<frontal_grid_matrix, original_matrix, frontal_grid_dict,
                   args>>

NextAdvection == CallGetFrontalTypesOverGrid

SpecAdvection == InitAdvection /\ [][NextAdvection]_vars

---------------------------------------------------------------------------
(* _polyline_to_grid_points.                                               *)

MinOf(S) == CHOOSE m \in S : \A v \in S : m <= v

MaxOfSet(S) == CHOOSE m \in S : \A v \in S : v <= m

\* shapely's LineString(...).is_valid: a line needs two distinct points.
\* With fewer than two vertices the constructor itself raises.
IsValidLineString(xs, ys) ==
    /\ Len(xs) >= 2
    /\ \E k \in DOMAIN xs : xs[k] # xs[1] \/ ys[k] # ys[1]

\* A segment from p to q meets the closed rectangle (it crosses it, lies in
\* it or touches its boundary): their extents overlap in x and in y, and
\* the corners of the rectangle are not all strictly on one side of the
\* line through p and q.
SegmentMeetsRectangle(p, q, xMin, xMax, yMin, yMax) ==
    LET Side(cx, cy) ==
            (q[1] - p[1]) * (cy - p[2]) - (q[2] - p[2]) * (cx - p[1])
        sides == {Side(xMin, yMin), Side(xMax, yMin), Side(xMax, yMax),
                  Side(xMin, yMax)}
    IN  /\ Max2(p[1], q[1]) >= xMin
        /\ (IF p[1] <= q[1] THEN p[1] ELSE q[1]) <= xMax
        /\ Max2(p[2], q[2]) >= yMin
        /\ (IF p[2] <= q[2] THEN p[2] ELSE q[2]) <= yMax
        /\ ~(\A v \in sides : v > 0)
        /\ ~(\A v \in sides : v < 0)

\* polygon.intersects(polyline) or polygon.touches(polyline) for the cell
\* of _grid_cell_to_polygon around a grid point: the rectangle reaching
\* half a grid spacing to each side.  Coordinates are doubled, so that the
\* half spacings are whole numbers.
CellMeetsPolyline(gridX, gridY, xSpacing, ySpacing, xs, ys) ==
    \E k \in 1 .. (Len(xs) - 1) :
        SegmentMeetsRectangle(<<2 * xs[k], 2 * ys[k]>>,
                              <<2 * xs[k + 1], 2 * ys[k + 1]>>,
                              2 * gridX - xSpacing, 2 * gridX + xSpacing,
                              2 * gridY - ySpacing, 2 * gridY + ySpacing)

\* numpy.where(lo <= coords <= hi)[0]: the indices (from 0) in range.
InRangeIndices(coords, lo, hi) ==
    {k - 1 : k \in {j \in DOMAIN coords : coords[j] >= lo /\ coords[j] <= hi}}

\* A variant whose bounding box starts at the least vertex coordinate, not
\* one grid spacing before it.
MinToConsiderWithoutSpacing(polyline_coords, spacing) ==
    MinOf(Range(polyline_coords))

\* numpy.min(polyline_coords) - spacing
MinToConsider(polyline_coords, spacing) ==
    MinOf(Range(polyline_coords)) - spacing

\* numpy.max(polyline_coords) + spacing
MaxToConsider(polyline_coords, spacing) ==
    MaxOfSet(Range(polyline_coords)) + spacing

\* _polyline_to_grid_points: an error, or the row and column arrays.
PolylineToGridPoints(a) ==
    IF ~IsValidLineString(a.polyline_x_coords, a.polyline_y_coords)
    THEN Error
    ELSE
    LET x_spacing == a.grid_point_x_coords[2] - a.grid_point_x_coords[1]
        y_spacing == a.grid_point_y_coords[2] - a.grid_point_y_coords[1]
        x_in_range_indices ==
            InRangeIndices(a.grid_point_x_coords,
                           MinToConsider(a.polyline_x_coords, x_spacing),
                           MaxToConsider(a.polyline_x_coords, x_spacing))
        y_in_range_indices ==
            InRangeIndices(a.grid_point_y_coords,
                           MinToConsider(a.polyline_y_coords, y_spacing),
                           MaxToConsider(a.polyline_y_coords, y_spacing))
    IN  \* numpy.min of an empty array raises ValueError
        IF y_in_range_indices = {} \/ x_in_range_indices = {} THEN Error
        ELSE
        LET row_offset == MinOf(y_in_range_indices)
            column_offset == MinOf(x_in_range_indices)
            \* the i-th (from 0) index in range, in ascending order
            Considered(indices, i) ==
                CHOOSE k \in indices :
                    Cardinality({m \in indices : m < k}) = i
            in_polyline ==
                {<<i + row_offset, j + column_offset>> :
                    <<i, j>> \in
                        {x \in (0 .. (Cardinality(y_in_range_indices) - 1))
                                 \X (0 .. (Cardinality(x_in_range_indices) - 1)) :
                            CellMeetsPolyline(
                                a.grid_point_x_coords[
                                    Considered(x_in_range_indices, x[2]) + 1],
                                a.grid_point_y_coords[
                                    Considered(y_in_range_indices, x[1]) + 1],
                                x_spacing, y_spacing,
                                a.polyline_x_coords, a.polyline_y_coords)}}
        IN  [kind |-> "points",
             rows |-> NumpyWhere(in_polyline).rows,
             columns |-> NumpyWhere(in_polyline).columns]

\* The grid points of a regular grid with NumCols columns and NumRows
\* rows, the first at 0 and the spacing 2 in x and in y.
GridPointCoords(num) == [k \in 1 .. num |-> 2 * (k - 1)]

\* The caller passes a polyline of two vertices whose coordinates reach
\* from the margin before the first grid point to the margin after the
\* last one.
InitPolylineWithin(margin) ==
    /\ pc = "start"
    /\ frontal_grid_matrix = FullMatrix(NO_FRONT_INTEGER_ID)
    /\ original_matrix = frontal_grid_matrix
    /\ frontal_grid_dict = EmptyDict
    /\ \E x1, x2 \in (0 - margin) .. (2 * (NumCols - 1) + margin) :
       \E y1, y2 \in (0 - margin) .. (2 * (NumRows - 1) + margin) :
           args = [kind |-> "polyline",
                   polyline_x_coords |-> <<x1, x2>>,
                   polyline_y_coords |-> <<y1, y2>>,
                   grid_point_x_coords |-> GridPointCoords(NumCols),
                   grid_point_y_coords |-> GridPointCoords(NumRows),
                   dilation_distance_metres |-> 0]
    /\ result = NoResult

InitPolyline == InitPolylineWithin(PolylineMargin)

\* _polyline_to_grid_points(polyline_x, polyline_y, grid_x, grid_y)
CallPolylineToGridPoints ==
    /\ pc = "start"
    /\ pc' = "_polyline_to_grid_points"
    /\ result' = PolylineToGridPoints(args)
    /\ UNCHANGED <<frontal_grid_matrix, original_matrix, frontal_grid_dict,
                   args>>

NextPolyline == CallPolylineToGridPoints

SpecPolyline == InitPolyline /\ [][NextPolyline]_vars

---------------------------------------------------------------------------
(* polyline_to_binary_narr_grid and many_polylines_to_narr_grid.           *)
(* Latitudes and longitudes are whole numbers of half tolerances (one unit *)
(* is TOLERANCE_DEG / 2), so that two vertices can differ and still match  *)
(* within the tolerance.                                                   *)

AbsoluteValue(v) == IF v >= 0 THEN v ELSE 0 - v

\* A variant that takes a polyline as closed only when its first and last
\* vertices are the same point.
IsPolylineClosedExactly(vertex_latitudes_deg, vertex_longitudes_deg) ==
    /\ vertex_latitudes_deg[1]
           = vertex_latitudes_deg[Len(vertex_latitudes_deg)]
    /\ vertex_longitudes_deg[1]
           = vertex_longitudes_deg[Len(vertex_longitudes_deg)]

\* _is_polyline_closed
IsPolylineClosed(vertex_latitudes_deg, vertex_longitudes_deg) ==
    /\ AbsoluteValue(vertex_latitudes_deg[1]
                         - vertex_latitudes_deg[Len(vertex_latitudes_deg)])
           < TOLERANCE_DEG
    /\ AbsoluteValue(vertex_longitudes_deg[1]
                         - vertex_longitudes_deg[Len(vertex_longitudes_deg)])
           < TOLERANCE_DEG

\* The latitude of the pole, where the Lambert conformal projection of the
\* NARR grid sends every longitude to the same point.
PoleLatitude == 2 * (NumRows - 1) + PolylineMargin

\* nwp_model_utils.project_latlng_to_xy (library code): x grows with the
\* longitude and y with the latitude, one unit of either to one metre of
\* the model, and the pole is one point (the apex of the cone).
ProjectLatlngToXy(latitudes_deg, longitudes_deg) ==
    [x |-> [k \in DOMAIN longitudes_deg |->
               IF latitudes_deg[k] = PoleLatitude THEN 0
               ELSE longitudes_deg[k]],
     y |-> latitudes_deg]

\* _grid_points_to_binary_image, as integers
GridPointsToBinaryImage(rows_in_object, columns_in_object) ==
    AssignAt(FullMatrix(NO_FRONT_INTEGER_ID), rows_in_object,
             columns_in_object, ANY_FRONT_INTEGER_ID)

\* polyline_to_binary_narr_grid: an error, or the dilated binary matrix.
PolylineToBinaryNarrGrid(latitudes_deg, longitudes_deg, distance_metres) ==
    IF distance_metres < 0 THEN Error
    ELSE
    LET distance == CoercedDistance(distance_metres)
        xy == ProjectLatlngToXy(latitudes_deg, longitudes_deg)
        points == PolylineToGridPoints(
                      [kind |-> "polyline",
                       polyline_x_coords |-> xy.x,
                       polyline_y_coords |-> xy.y,
                       grid_point_x_coords |-> GridPointCoords(NumCols),
                       grid_point_y_coords |-> GridPointCoords(NumRows)])
    IN  IF points.kind = "error" THEN Error
        ELSE DilateBinaryNarrImage(
                 GridPointsToBinaryImage(points.rows, points.columns),
                 DistanceArgs(distance))

\* numpy.unique(times): the distinct values in ascending order.
RECURSIVE SortedValues(_)
SortedValues(S) ==
    IF S = {} THEN <<>>
    ELSE LET least == MinOf(S) IN <<least>> \o SortedValues(S \ {least})

\* The label many_polylines_to_narr_grid writes for the front in table row
\* j while it handles the valid time of index i (rows and indices from 1,
\* where the code counts from 0): the warm test reads the type of row j,
\* the cold test reads the type of row i.
LabelWritten(front_table, i, j) ==
    IF front_table[j].front_type = WARM_FRONT_STRING_ID
    THEN WARM_FRONT_INTEGER_ID
    ELSE IF front_table[i].front_type = COLD_FRONT_STRING_ID
    THEN COLD_FRONT_INTEGER_ID
    ELSE NO_FRONT_INTEGER_ID

\* The inner loop of many_polylines_to_narr_grid over the table rows
\* first .. Len(front_table) whose time is the valid time of index i: an
\* error, or the grid of that valid time.
RECURSIVE RasterizeFronts(_, _, _, _, _, _)
RasterizeFronts(front_table, valid_time, i, first, distance, matrix) ==
    IF first > Len(front_table) THEN [kind |-> "matrix", matrix |-> matrix]
    ELSE IF front_table[first].unix_time_sec # valid_time
    THEN RasterizeFronts(front_table, valid_time, i, first + 1, distance,
                         matrix)
    ELSE IF IsPolylineClosed(front_table[first].latitudes_deg,
                             front_table[first].longitudes_deg)
    THEN RasterizeFronts(front_table, valid_time, i, first + 1, distance,
                         matrix)
    ELSE
    LET binary == PolylineToBinaryNarrGrid(
                      front_table[first].latitudes_deg,
                      front_table[first].longitudes_deg, distance)
        label == LabelWritten(front_table, i, first)
    IN  IF binary.kind = "error" THEN Error
        ELSE RasterizeFronts(
                 front_table, valid_time, i, first + 1, distance,
                 [c \in Cells |->
                     IF /\ binary.matrix[c] = ANY_FRONT_INTEGER_ID
                        /\ label # NO_FRONT_INTEGER_ID
                     THEN label ELSE matrix[c]])

\* many_polylines_to_narr_grid: an error, or the table with one row for
\* each valid time.
ManyPolylinesToNarrGrid(front_table, dilation_distance_metres) ==
    LET valid_times ==
            SortedValues({front_table[j].unix_time_sec :
                             j \in DOMAIN front_table})
        grids == [i \in DOMAIN valid_times |->
                     RasterizeFronts(front_table, valid_times[i], i, 1,
                                     dilation_distance_metres,
                                     FullMatrix(NO_FRONT_INTEGER_ID))]
    IN  IF \E i \in DOMAIN valid_times : grids[i].kind = "error" THEN Error
        ELSE [kind |-> "table",
              rows |-> [i \in DOMAIN valid_times |->
                           LET dict == FrontalGridToPoints(grids[i].matrix)
                           IN  [unix_time_sec |-> valid_times[i],
                                warm_front_row_indices |->
                                    dict.warm_front_row_indices,
                                warm_front_column_indices |->
                                    dict.warm_front_column_indices,
                                cold_front_row_indices |->
                                    dict.cold_front_row_indices,
                                cold_front_column_indices |->
                                    dict.cold_front_column_indices]]]

\* polyline_to_binary_narr_grid(latitudes, longitudes, distance), the
\* caller's vertex arrays taken as longitudes (x) and latitudes (y).
CallPolylineToBinaryNarrGrid ==
    /\ pc = "start"
    /\ args.kind = "polyline"
    /\ \E d \in 0 .. GridSpacing :
           /\ args' = [args EXCEPT !.dilation_distance_metres = d]
           /\ result' = PolylineToBinaryNarrGrid(args.polyline_y_coords,
                                                 args.polyline_x_coords, d)
    /\ pc' = "polyline_to_binary_narr_grid"
    /\ UNCHANGED <<frontal_grid_matrix, original_matrix, frontal_grid_dict>>

NextBuffer == CallPolylineToBinaryNarrGrid \/ CallBufferDistanceToNarrMask

\* The polylines of this specification stay between the first and the
\* last grid point.
InitBuffer == InitPolylineWithin(0)

SpecBuffer == InitBuffer /\ [][NextBuffer]_vars

\* The polylines of the front table: one along the first grid row, one
\* along the third grid column, one whose ends match within the tolerance
\* without being equal, one that returns to its first vertex, and one that
\* runs along the pole.
InputPolylines ==
    {[latitudes_deg |-> <<0, 0>>, longitudes_deg |-> <<0, 4>>],
     [latitudes_deg |-> <<0, 4>>, longitudes_deg |-> <<4, 4>>],
     [latitudes_deg |-> <<2, 2>>, longitudes_deg |-> <<2, 3>>],
     [latitudes_deg |-> <<0, 4, 0>>, longitudes_deg |-> <<0, 0, 0>>],
     [latitudes_deg |-> <<PoleLatitude, PoleLatitude>>,
      longitudes_deg |-> <<0, 4>>]}

\* One record of the front table.
FrontRecord(time, type, polyline) ==
    [unix_time_sec |-> time, front_type |-> type,
     latitudes_deg |-> polyline.latitudes_deg,
     longitudes_deg |-> polyline.longitudes_deg]

\* The valid times of the front table.
InputTimes == {1, 2}

InputFronts ==
    {FrontRecord(t, type, p) :
        t \in InputTimes,
        type \in {WARM_FRONT_STRING_ID, COLD_FRONT_STRING_ID},
        p \in InputPolylines}

\* The caller holds a front table of 1 .. MaxFronts records and a dilation
\* distance of at most one grid spacing.
InitFrontTable ==
    /\ pc = "start"
    /\ frontal_grid_matrix = FullMatrix(NO_FRONT_INTEGER_ID)
    /\ original_matrix = frontal_grid_matrix
    /\ frontal_grid_dict = EmptyDict
    /\ \E n \in 1 .. MaxFronts :
       \E table \in [1 .. n -> InputFronts] :
       \E d \in 0 .. GridSpacing :
           args = [kind |-> "front_table", front_table |-> table,
                   dilation_distance_metres |-> d]
    /\ result = NoResult

\* many_polylines_to_narr_grid(front_table, dilation_distance_metres)
CallManyPolylinesToNarrGrid ==
    /\ pc = "start"
    /\ pc' = "many_polylines_to_narr_grid"
    /\ result' = ManyPolylinesToNarrGrid(args.front_table,
                                         args.dilation_distance_metres)
    /\ UNCHANGED <<frontal_grid_matrix, original_matrix, frontal_grid_dict,
                   args>>

NextFrontTable == CallManyPolylinesToNarrGrid

SpecFrontTable == InitFrontTable /\ [][NextFrontTable]_vars

---------------------------------------------------------------------------
(* climatology_utils.py: apply_separation_time.                            *)

\* front_utils.NO_FRONT_ENUM, WARM_FRONT_ENUM and COLD_FRONT_ENUM
NO_FRONT_ENUM == NO_FRONT_INTEGER_ID

WARM_FRONT_ENUM == WARM_FRONT_INTEGER_ID

COLD_FRONT_ENUM == COLD_FRONT_INTEGER_ID

\* A variant that leaves the array in its order.
TakeAtInPlace(array, indices) == array

\* array[indices]
TakeAt(array, indices) == [k \in DOMAIN indices |-> array[indices[k]]]

\* numpy.argsort(valid_times_unix_sec): the orders (from 1) that sort the
\* times; equal times may come in either order.
ArgSort(times) ==
    {p \in Permutations(DOMAIN times) :
        \A k \in 1 .. (Len(times) - 1) : times[p[k]] <= times[p[k + 1]]}

\* A variant that takes the later labels of every type.
TheseIndicesOfAnyType(enums, times, separation_time_sec, relevant, k) ==
    {m \in DOMAIN enums :
        /\ m > k
        /\ times[m] < times[k] + separation_time_sec}

\* these_indices for the front that starts at k: the later labels of the
\* relevant type whose time is less than the separation time after k's.
TheseIndices(enums, times, separation_time_sec, relevant, k) ==
    {m \in DOMAIN enums :
        /\ m > k
        /\ enums[m] = relevant
        /\ times[m] < times[k] + separation_time_sec}

\* The for-loop of _apply_sep_time_one_front_type over the start indices
\* >= first: a front of the relevant type that starts at k turns every
\* later label of that type within the separation time into "no front".
RECURSIVE SeparateFrom(_, _, _, _, _, _)
SeparateFrom(enums, times, separation_time_sec, relevant, starts, first) ==
    IF first > Len(enums) THEN enums
    ELSE IF first \notin starts \/ enums[first] # relevant
    THEN SeparateFrom(enums, times, separation_time_sec, relevant, starts,
                      first + 1)
    ELSE SeparateFrom(
             [m \in DOMAIN enums |->
                 IF m \in TheseIndices(enums, times, separation_time_sec,
                                       relevant, first)
                 THEN NO_FRONT_ENUM ELSE enums[m]],
             times, separation_time_sec, relevant, starts, first + 1)

\* A variant without the flag that is prefixed for the first label.
FrontStartIndicesWithoutFirst(enums, times, relevant) ==
    LET smallest_time_step ==
            MinOf({times[k + 1] - times[k] : k \in 1 .. (Len(times) - 1)})
    IN  {k \in DOMAIN enums :
            /\ enums[k] = relevant
            /\ k > 1
            /\ \/ times[k] - times[k - 1] > smallest_time_step
               \/ enums[k - 1] # relevant}

\* front_start_indices: the labels of the relevant type that come first,
\* or after a time step larger than the smallest one, or after a label
\* that is not of the relevant type.
FrontStartIndices(enums, times, relevant) ==
    LET smallest_time_step ==
            MinOf({times[k + 1] - times[k] : k \in 1 .. (Len(times) - 1)})
    IN  {k \in DOMAIN enums :
            /\ enums[k] = relevant
            /\ \/ k = 1
               \/ times[k] - times[k - 1] > smallest_time_step
               \/ enums[k - 1] # relevant}

\* One pass of the body of the while-loop, for times that are sorted and
\* more than one.
SeparateOnce(enums, times, separation_time_sec, relevant) ==
    SeparateFrom(enums, times, separation_time_sec, relevant,
                 FrontStartIndices(enums, times, relevant), 1)

\* A variant of the exit test that never holds.
ArrayNeverEqual(array, other_array) == FALSE

\* numpy.array_equal
ArrayEqual(array, other_array) == array = other_array

\* The while-loop of _apply_sep_time_one_front_type, for times that are
\* sorted and more than one: repeated until a pass changes no label.
RECURSIVE SeparateUntilStable(_, _, _, _)
SeparateUntilStable(enums, times, separation_time_sec, relevant) ==
    LET separated == SeparateOnce(enums, times, separation_time_sec,
                                  relevant)
    IN  IF ArrayEqual(separated, enums) THEN enums
        ELSE SeparateUntilStable(separated, times, separation_time_sec,
                                 relevant)

\* A variant that leaves out the pass for cold fronts.
ApplySeparationTimeWithoutColdPass(enums, times, separation_time_sec, sort_indices) ==
    IF \E k \in DOMAIN enums :
           enums[k] < NO_FRONT_ENUM \/ enums[k] > COLD_FRONT_ENUM
    THEN Error
    ELSE IF Len(times) # Len(enums) \/ separation_time_sec <= 0 THEN Error
    ELSE IF Len(times) < 2 THEN Error
    ELSE
    LET sorted_times == TakeAt(times, sort_indices)
        sorted_enums == TakeAt(enums, sort_indices)
        after_warm == SeparateUntilStable(sorted_enums, sorted_times,
                                          separation_time_sec,
                                          WARM_FRONT_ENUM)
    IN  [kind |-> "separated",
         front_type_enums |-> after_warm,
         valid_times_unix_sec |-> sorted_times]

\* apply_separation_time with the order argsort returned: an error, or the
\* two returned arrays.  numpy.min of the time steps raises for fewer than
\* two times.
ApplySeparationTime(enums, times, separation_time_sec, sort_indices) ==
    IF \E k \in DOMAIN enums :
           enums[k] < NO_FRONT_ENUM \/ enums[k] > COLD_FRONT_ENUM
    THEN Error
    ELSE IF Len(times) # Len(enums) \/ separation_time_sec <= 0 THEN Error
    ELSE IF Len(times) < 2 THEN Error
    ELSE
    LET sorted_times == TakeAt(times, sort_indices)
        sorted_enums == TakeAt(enums, sort_indices)
        after_warm == SeparateUntilStable(sorted_enums, sorted_times,
                                          separation_time_sec,
                                          WARM_FRONT_ENUM)
        after_cold == SeparateUntilStable(after_warm, sorted_times,
                                          separation_time_sec,
                                          COLD_FRONT_ENUM)
    IN  [kind |-> "separated",
         front_type_enums |-> after_cold,
         valid_times_unix_sec |-> sorted_times]

\* The caller holds 1 .. MaxTimeSteps labels and as many times, in any
\* order, and a separation time.
InitSeparation ==
    /\ pc = "start"
    /\ frontal_grid_matrix = FullMatrix(NO_FRONT_INTEGER_ID)
    /\ original_matrix = frontal_grid_matrix
    /\ frontal_grid_dict = EmptyDict
    /\ \E n \in 1 .. MaxTimeSteps :
       \E enums \in [1 .. n -> NO_FRONT_ENUM .. COLD_FRONT_ENUM] :
       \E times \in [1 .. n -> 0 .. MaxTime] :
       \E s \in 0 .. MaxSeparationTime :
           args = [kind |-> "separation",
                   front_type_enums |-> enums,
                   valid_times_unix_sec |-> times,
                   separation_time_sec |-> s]
    /\ result = NoResult

\* apply_separation_time(front_type_enums, valid_times_unix_sec,
\* separation_time_sec); the arrays of the caller are not written.
CallApplySeparationTime ==
    /\ pc = "start"
    /\ pc' = "apply_separation_time"
    /\ \E sort_indices \in ArgSort(args.valid_times_unix_sec) :
           result' = ApplySeparationTime(args.front_type_enums,
                                         args.valid_times_unix_sec,
                                         args.separation_time_sec,
                                         sort_indices)
    /\ UNCHANGED <<frontal_grid_matrix, original_matrix, frontal_grid_dict,
                   args>>

NextSeparation == CallApplySeparationTime

SpecSeparation == InitSeparation /\ [][NextSeparation]_vars

\* The caller of _apply_sep_time_one_front_type holds 1 .. MaxLoopSteps
\* labels and as many times, sorted by increasing time as the function
\* assumes and counted from the first one (the function takes differences
\* of times only), a separation time and the relevant front type.  The
\* labels are "no front", the relevant type and the other labels given.
InitOneFrontTypeWith(other_labels) ==
    /\ pc = "start"
    /\ frontal_grid_matrix = FullMatrix(NO_FRONT_INTEGER_ID)
    /\ original_matrix = frontal_grid_matrix
    /\ frontal_grid_dict = EmptyDict
    /\ \E n \in 1 .. MaxLoopSteps :
       \E times \in [1 .. n -> 0 .. MaxTime] :
       \E relevant \in {WARM_FRONT_ENUM, COLD_FRONT_ENUM} :
       \E enums \in [1 .. n -> {NO_FRONT_ENUM, relevant} \cup other_labels] :
       \E s \in 0 .. MaxSeparationTime :
           /\ times[1] = 0
           /\ \A k \in 1 .. (n - 1) : times[k] <= times[k + 1]
           /\ args = [kind |-> "one_front_type",
                      front_type_enums |-> enums,
                      input_front_type_enums |-> enums,
                      valid_times_unix_sec |-> times,
                      separation_time_sec |-> s,
                      relevant_front_type_enum |-> relevant]
    /\ result = NoResult

InitOneFrontType == InitOneFrontTypeWith({WARM_FRONT_ENUM, COLD_FRONT_ENUM})

\* _apply_sep_time_one_front_type up to the while-loop: numpy.min of the
\* time steps raises for fewer than two times.
CallApplySepTimeOneFrontType ==
    /\ pc = "start"
    /\ IF Len(args.valid_times_unix_sec) < 2
       THEN /\ pc' = "_apply_sep_time_one_front_type"
            /\ result' = Error
       ELSE /\ pc' = "while"
            /\ result' = [kind |-> "loop", num_iterations |-> 0]
    /\ UNCHANGED <<frontal_grid_matrix, original_matrix, frontal_grid_dict,
                   args>>

\* One iteration of the while-loop.  The labels are written into the
\* array of the caller, which is also the array returned;
\* input_front_type_enums keeps what the caller passed, and
\* num_iterations counts the iterations (no more than MaxIterations are
\* followed).
IterateSeparation ==
    /\ pc = "while"
    /\ result.num_iterations < MaxIterations
    /\ LET separated == SeparateOnce(args.front_type_enums,
                                     args.valid_times_unix_sec,
                                     args.separation_time_sec,
                                     args.relevant_front_type_enum)
       IN  /\ args' = [args EXCEPT !.front_type_enums = separated]
           /\ IF ArrayEqual(separated, args.front_type_enums)
              THEN /\ pc' = "_apply_sep_time_one_front_type"
                   /\ result' = [kind |-> "separated",
                                 front_type_enums |-> separated,
                                 num_iterations |->
                                     result.num_iterations + 1]
              ELSE /\ pc' = "while"
                   /\ result' = [kind |-> "loop",
                                 num_iterations |->
                                     result.num_iterations + 1]
    /\ UNCHANGED <<frontal_grid_matrix, original_matrix, frontal_grid_dict>>

NextOneFrontType == CallApplySepTimeOneFrontType \/ IterateSeparation

SpecOneFrontType == InitOneFrontType /\ [][NextOneFrontType]_vars

\* The function runs to its end once it is called: every step that can be
\* taken is taken eventually.  The loop compares labels with the relevant
\* type only, so the labels here are that type and "no front".
FairSpecOneFrontType ==
    /\ InitOneFrontTypeWith({})
    /\ [][NextOneFrontType]_vars
    /\ WF_vars(NextOneFrontType)

\* The caller of apply_separation_time holds a time series: 2 ..
\* MaxSeriesSteps labels at distinct times in increasing order, counted
\* from the first one, and a positive separation time.
InitTimeSeries ==
    /\ pc = "start"
    /\ frontal_grid_matrix = FullMatrix(NO_FRONT_INTEGER_ID)
    /\ original_matrix = frontal_grid_matrix
    /\ frontal_grid_dict = EmptyDict
    /\ \E n \in 2 .. MaxSeriesSteps :
       \E times \in [1 .. n -> 0 .. MaxSeriesTime] :
       \E enums \in [1 .. n -> NO_FRONT_ENUM .. COLD_FRONT_ENUM] :
       \E s \in 1 .. MaxSeriesSeparation :
           /\ times[1] = 0
           /\ \A k \in 1 .. (n - 1) : times[k] < times[k + 1]
           /\ args = [kind |-> "separation",
                      front_type_enums |-> enums,
                      valid_times_unix_sec |-> times,
                      separation_time_sec |-> s]
    /\ result = NoResult

SpecTimeSeries == InitTimeSeries /\ [][NextSeparation]_vars

---------------------------------------------------------------------------
(* filter_by_hour and filter_by_month (climatology_utils.py).              *)

\* time_conversion.unix_sec_to_string(t, '%H') as an integer: the hour of
\* the day in UTC.
ExactTimeToHour(t) == (t \div 3600) % 24

\* The days of a year of 365 days before the first day of each month.
DaysBeforeMonth == <<0, 31, 59, 90, 120, 151, 181, 212, 243, 273, 304, 334>>

\* time_conversion.unix_sec_to_string(t, '%m') as an integer: the calendar
\* month in UTC, for times in 1970 and 1971 (years of 365 days).
ExactTimeToMonth(t) ==
    LET day_of_year == (t \div 86400) % 365
    IN  MaxOfSet({m \in DOMAIN DaysBeforeMonth :
                     DaysBeforeMonth[m] <= day_of_year})

\* _check_hours: every hour is in 0 ... 23.
CheckHours(hours) == \A k \in DOMAIN hours : hours[k] >= 0 /\ hours[k] <= 23

\* _check_months: every month is in 1 ... 12.
CheckMonths(months) ==
    \A k \in DOMAIN months : months[k] >= 1 /\ months[k] <= 12

\* A variant that reads the first value to keep only.
KeepTimeFlagsOfFirst(all_values, values_to_keep) ==
    [k \in DOMAIN all_values |->
        values_to_keep # <<>> /\ all_values[k] = values_to_keep[1]]

\* keep_time_flags after the loop over the values to keep: the logical_or
\* of all_values == this_value.
KeepTimeFlags(all_values, values_to_keep) ==
    [k \in DOMAIN all_values |->
        \E i \in DOMAIN values_to_keep : all_values[k] = values_to_keep[i]]

\* numpy.where(keep_time_flags)[0]: the indices (from 0) of the flags that
\* are set, in increasing order.
WhereFlags(keep_time_flags) ==
    SortedValues({k - 1 : k \in {j \in DOMAIN keep_time_flags :
                                    keep_time_flags[j]}})

\* filter_by_hour: an error, or the indices to keep.
FilterByHour(all_times_unix_sec, hours_to_keep) ==
    IF ~CheckHours(hours_to_keep) THEN Error
    ELSE [kind |-> "indices",
          indices |->
              WhereFlags(KeepTimeFlags(
                  [k \in DOMAIN all_times_unix_sec |->
                      ExactTimeToHour(all_times_unix_sec[k])],
                  hours_to_keep))]

\* filter_by_month: an error, or the indices to keep.
FilterByMonth(all_times_unix_sec, months_to_keep) ==
    IF ~CheckMonths(months_to_keep) THEN Error
    ELSE [kind |-> "indices",
          indices |->
              WhereFlags(KeepTimeFlags(
                  [k \in DOMAIN all_times_unix_sec |->
                      ExactTimeToMonth(all_times_unix_sec[k])],
                  months_to_keep))]

\* The times a caller passes: 1970-01-01 00:00:00, 01:00:00 and 23:59:59,
\* 1970-02-01 00:00:00, 1970-12-31 23:59:59 and 1971-01-01 00:00:00.
InputUnixTimes == {0, 3600, 86399, 2678400, 31535999, 31536000}

\* The hours or months a caller asks for, some of them not valid.
InputValuesToKeep == {0, 1, 12, 23}

\* The caller holds up to MaxFilterTimes times, in any order, and up to
\* MaxFilterValues hours or months to keep.
InitFilter ==
    /\ pc = "start"
    /\ frontal_grid_matrix = FullMatrix(NO_FRONT_INTEGER_ID)
    /\ original_matrix = frontal_grid_matrix
    /\ frontal_grid_dict = EmptyDict
    /\ \E times \in SeqsUpTo(InputUnixTimes, MaxFilterTimes) :
       \E values \in SeqsUpTo(InputValuesToKeep, MaxFilterValues) :
           args = [kind |-> "filter",
                   all_times_unix_sec |-> times,
                   values_to_keep |-> values]
    /\ result = NoResult

\* filter_by_hour(all_times_unix_sec, hours_to_keep)
CallFilterByHour ==
    /\ pc = "start"
    /\ pc' = "filter_by_hour"
    /\ result' = FilterByHour(args.all_times_unix_sec, args.values_to_keep)
    /\ UNCHANGED <<frontal_grid_matrix, original_matrix, frontal_grid_dict,
                   args>>

\* filter_by_month(all_times_unix_sec, months_to_keep)
CallFilterByMonth ==
    /\ pc = "start"
    /\ pc' = "filter_by_month"
    /\ result' = FilterByMonth(args.all_times_unix_sec, args.values_to_keep)
    /\ UNCHANGED <<frontal_grid_matrix, original_matrix, frontal_grid_dict,
                   args>>

NextFilter == CallFilterByHour \/ CallFilterByMonth

SpecFilter == InitFilter /\ [][NextFilter]_vars

---------------------------------------------------------------------------
(* write_gridded_counts and read_gridded_counts (climatology_utils.py).    *)

\* Python's None.
None == [kind |-> "None"]

\* A 1-D numpy array of integers.
Array(values) == [kind |-> "array", values |-> values]

\* The hours attribute written for hours=None.
HoursOfAllHours == Array(<<0 - 2, 0 - 1>>)

\* The months attribute written for months=None.
MonthsOfAllMonths == Array(<<0 - 1>>)

\* getattr(dataset_object, key) followed by the conversion of
\* read_gridded_counts: netCDF4 returns an attribute of one element as a
\* scalar, which is put back into an array of one element, and a longer
\* one as an array; an array holding only -1 is read as None.
ReadFilterAttribute(attribute) ==
    IF Len(attribute.values) = 1 /\ attribute.values[1] = 0 - 1 THEN None
    ELSE attribute

\* write_gridded_counts: an error, or the global attributes of the file it
\* writes (the count matrices and file names are stored as given).
WriteGriddedCounts(a) ==
    IF a.last_time_unix_sec <= a.first_time_unix_sec THEN Error
    ELSE IF a.separation_time_sec <= 0 THEN Error
    ELSE IF a.hours # None /\ ~CheckHours(a.hours.values) THEN Error
    ELSE IF a.months # None /\ ~CheckMonths(a.months.values) THEN Error
    ELSE [kind |-> "netcdf_file",
          separation_time_sec |-> a.separation_time_sec,
          first_time_unix_sec |-> a.first_time_unix_sec,
          last_time_unix_sec |-> a.last_time_unix_sec,
          hours |-> IF a.hours = None THEN HoursOfAllHours ELSE a.hours,
          months |-> IF a.months = None THEN MonthsOfAllMonths ELSE a.months]

\* read_gridded_counts: the dictionary read from the file.
ReadGriddedCounts(file) ==
    [kind |-> "count_dict",
     first_time_unix_sec |-> file.first_time_unix_sec,
     last_time_unix_sec |-> file.last_time_unix_sec,
     hours |-> ReadFilterAttribute(file.hours),
     months |-> ReadFilterAttribute(file.months),
     separation_time_sec |-> file.separation_time_sec]

\* None, or an array of 1 .. MaxFilterValues values.
InputFilters ==
    {None} \cup {Array(values) :
                    values \in SeqsUpTo(InputValuesToKeep, MaxFilterValues)
                                   \ {<<>>}}

\* The caller holds the arguments of write_gridded_counts.
InitGriddedCounts ==
    /\ pc = "start"
    /\ frontal_grid_matrix = FullMatrix(NO_FRONT_INTEGER_ID)
    /\ original_matrix = frontal_grid_matrix
    /\ frontal_grid_dict = EmptyDict
    /\ \E hours \in InputFilters :
       \E months \in InputFilters :
       \E first_time, last_time \in 0 .. 1 :
       \E s \in 0 .. 1 :
           args = [kind |-> "gridded_counts",
                   first_time_unix_sec |-> first_time,
                   last_time_unix_sec |-> last_time,
                   separation_time_sec |-> s,
                   hours |-> hours,
                   months |-> months]
    /\ result = NoResult

\* write_gridded_counts(netcdf_file_name, ...): the file written is kept in
\* result.
CallWriteGriddedCounts ==
    /\ pc = "start"
    /\ pc' = "write_gridded_counts"
    /\ result' = WriteGriddedCounts(args)
    /\ UNCHANGED <<frontal_grid_matrix, original_matrix, frontal_grid_dict,
                   args>>

\* read_gridded_counts(netcdf_file_name) of the file written.
CallReadGriddedCounts ==
    /\ pc = "write_gridded_counts"
    /\ result.kind = "netcdf_file"
    /\ pc' = "read_gridded_counts"
    /\ result' = ReadGriddedCounts(result)
    /\ UNCHANGED <<frontal_grid_matrix, original_matrix, frontal_grid_dict,
                   args>>

NextGriddedCounts == CallWriteGriddedCounts \/ CallReadGriddedCounts

SpecGriddedCounts == InitGriddedCounts /\ [][NextGriddedCounts]_vars

---------------------------------------------------------------------------
(* _run and _write_example_file (create_learning_examples.py).  Times are  *)
(* counted in units of TIME_INTERVAL_SECONDS from the first valid time.    *)

\* A dictionary of examples, by the valid times of its examples in the
\* order of the arrays.
ExampleDict(example_times) ==
    [kind |-> "example_dict", example_times |-> example_times]

\* A variant that writes a file for no examples too.
WriteExampleFileAlways(files, example_dict, first_time_unix_sec, last_time_unix_sec) ==
    {f \in files : f.first_time_unix_sec # first_time_unix_sec
                       \/ f.last_time_unix_sec # last_time_unix_sec}
        \cup {[first_time_unix_sec |-> first_time_unix_sec,
               last_time_unix_sec |-> last_time_unix_sec,
               example_dict |-> example_dict]}

\* _write_example_file: the files of the output directory after the call.
\* Nothing is written for None; the file, named by the two times, replaces
\* a file of the same name.
WriteExampleFile(files, example_dict, first_time_unix_sec, last_time_unix_sec) ==
    IF example_dict = None THEN files
    ELSE {f \in files : f.first_time_unix_sec # first_time_unix_sec
                            \/ f.last_time_unix_sec # last_time_unix_sec}
             \cup {[first_time_unix_sec |-> first_time_unix_sec,
                    last_time_unix_sec |-> last_time_unix_sec,
                    example_dict |-> example_dict]}

\* examples_io.create_examples for one valid time: None, or the examples
\* of that time.
CreateExamples(valid_time_unix_sec) ==
    IF valid_time_unix_sec \in args.times_with_examples
    THEN ExampleDict(<<valid_time_unix_sec>>)
    ELSE None

\* The script is run for 1 .. MaxRunTimes valid times, a number of times
\* per output file, and input files that give examples at some of the
\* times.
InitRun ==
    /\ pc = "start"
    /\ frontal_grid_matrix = FullMatrix(NO_FRONT_INTEGER_ID)
    /\ original_matrix = frontal_grid_matrix
    /\ frontal_grid_dict = EmptyDict
    /\ \E n \in 1 .. MaxRunTimes :
       \E num_times_per_output_file \in 0 .. MaxTimesPerFile :
       \E times_with_examples \in SUBSET (0 .. (n - 1)) :
           args = [kind |-> "run",
                   valid_times_unix_sec |-> [k \in 1 .. n |-> k - 1],
                   num_times_per_output_file |-> num_times_per_output_file,
                   times_with_examples |-> times_with_examples]
    /\ result = NoResult

\* _run up to its for-loop.
CallRun ==
    /\ pc = "start"
    /\ IF args.num_times_per_output_file <= 0
       THEN /\ pc' = "_run"
            /\ result' = Error
       ELSE /\ pc' = "for"
            /\ result' = [kind |-> "loop",
                          i |-> 0,
                          this_example_dict |-> None,
                          this_first_time_unix_sec |->
                              args.valid_times_unix_sec[1],
                          files |-> {}]
    /\ UNCHANGED <<frontal_grid_matrix, original_matrix, frontal_grid_dict,
                   args>>

\* One iteration of the for-loop of _run (i counts from 0, sequences from
\* 1).
IterateRun ==
    /\ pc = "for"
    /\ result.i < Len(args.valid_times_unix_sec)
    /\ LET i == result.i
           file_is_full ==
               i % args.num_times_per_output_file = 0 /\ i > 0
           files ==
               IF file_is_full
               THEN WriteExampleFile(result.files, result.this_example_dict,
                                     result.this_first_time_unix_sec,
                                     args.valid_times_unix_sec[i])
               ELSE result.files
           this_example_dict ==
               IF file_is_full THEN None ELSE result.this_example_dict
           this_new_example_dict ==
               CreateExamples(args.valid_times_unix_sec[i + 1])
       IN  result' =
               [kind |-> "loop",
                i |-> i + 1,
                this_example_dict |->
                    IF this_new_example_dict = None THEN this_example_dict
                    ELSE IF this_example_dict = None
                    THEN this_new_example_dict
                    ELSE ExampleDict(this_example_dict.example_times
                                         \o this_new_example_dict.example_times),
                this_first_time_unix_sec |->
                    IF file_is_full THEN args.valid_times_unix_sec[i + 1]
                    ELSE result.this_first_time_unix_sec,
                files |-> files]
    /\ pc' = "for"
    /\ UNCHANGED <<frontal_grid_matrix, original_matrix, frontal_grid_dict,
                   args>>

\* The call of _write_example_file after the loop, and the return.
ReturnFromRun ==
    /\ pc = "for"
    /\ result.i = Len(args.valid_times_unix_sec)
    /\ pc' = "_run"
    /\ result' =
           [kind |-> "files",
            files |->
                WriteExampleFile(
                    result.files, result.this_example_dict,
                    result.this_first_time_unix_sec,
                    args.valid_times_unix_sec[
                        Len(args.valid_times_unix_sec)])]
    /\ UNCHANGED <<frontal_grid_matrix, original_matrix, frontal_grid_dict,
                   args>>

NextRun == CallRun \/ IterateRun \/ ReturnFromRun

SpecRun == InitRun /\ [][NextRun]_vars

---------------------------------------------------------------------------
(* Claims.                                                                 *)

\* The cells a dictionary lists as warm fronts, and as cold fronts.
WarmPairs(dict) ==
    IndexPairs(dict.warm_front_row_indices, dict.warm_front_column_indices)

ColdPairs(dict) ==
    IndexPairs(dict.cold_front_row_indices, dict.cold_front_column_indices)

\* No cell is listed twice in the warm arrays, none twice in the cold
\* arrays, and none under both types.
DuplicateFreeAndDisjoint(dict) ==
    /\ Cardinality(WarmPairs(dict)) = Len(dict.warm_front_row_indices)
    /\ Cardinality(ColdPairs(dict)) = Len(dict.cold_front_row_indices)
    /\ WarmPairs(dict) \cap ColdPairs(dict) = {}

\* C1: when the grid was built by frontal_points_to_grid from in-bounds
\* index arrays that are duplicate-free and mutually disjoint, the
\* frontal_grid_to_points call that follows returns exactly the original
\* warm cells and the original cold cells, compared as sets of (row,
\* column) pairs.
C1_PointsRoundTrip ==
    [][(/\ pc = "frontal_points_to_grid"
        /\ pc' = "frontal_grid_to_points"
        /\ DuplicateFreeAndDisjoint(frontal_grid_dict))
       => (/\ result'.kind = "dict"
           /\ WarmPairs(frontal_grid_dict') = WarmPairs(frontal_grid_dict)
           /\ ColdPairs(frontal_grid_dict') = ColdPairs(frontal_grid_dict))]_vars

\* C1 witness: a grid built from a dictionary listing a warm and a cold
\* cell has been converted back to points.
C1_Witness ==
    /\ pc = "frontal_grid_to_points"
    /\ original_matrix = FullMatrix(NO_FRONT_INTEGER_ID)
    /\ WarmPairs(frontal_grid_dict) # {}
    /\ ColdPairs(frontal_grid_dict) # {}
    /\ frontal_grid_matrix = FrontalPointsToGrid(frontal_grid_dict)

\* C2: when the dictionary was read by frontal_grid_to_points from a grid
\* with all cells in {0, 1, 2}, the frontal_points_to_grid call that
\* follows rebuilds that grid cell for cell.
C2_GridRoundTrip ==
    [][(/\ pc = "frontal_grid_to_points"
        /\ result.kind = "dict"
        /\ pc' = "frontal_points_to_grid")
       => frontal_grid_matrix' = frontal_grid_matrix]_vars

\* C2 witness: a grid holding both front types has been rebuilt from the
\* points read from it.
C2_Witness ==
    /\ pc = "frontal_points_to_grid"
    /\ frontal_grid_matrix = original_matrix
    /\ \E c \in Cells : original_matrix[c] = WARM_FRONT_INTEGER_ID
    /\ \E c \in Cells : original_matrix[c] = COLD_FRONT_INTEGER_ID
\* The cells of a 0/1 matrix that are 1.
Ones(matrix) == {c \in DOMAIN matrix : matrix[c] = 1}

\* The cells covered by both the dilated warm mask and the dilated cold
\* mask of the caller's original grid, under the arguments of the last call.
ContestedCells ==
    Ones(DilateBinaryNarrImage(
             BinaryMatrixOf(original_matrix, WARM_FRONT_INTEGER_ID),
             args).matrix)
    \cap Ones(DilateBinaryNarrImage(
                  BinaryMatrixOf(original_matrix, COLD_FRONT_INTEGER_ID),
                  args).matrix)

OriginalWarmDistance(c) ==
    MinSquaredDistance(c, CellsWith(original_matrix, WARM_FRONT_INTEGER_ID))

OriginalColdDistance(c) ==
    MinSquaredDistance(c, CellsWith(original_matrix, COLD_FRONT_INTEGER_ID))

\* C3: after dilate_ternary_narr_image, every cell covered by both the
\* dilated warm mask and the dilated cold mask carries the type whose
\* original cells are nearest in squared index distance, and carries cold
\* front (2) when the two least squared distances are equal.
C3_NearestTypeWinsTiesCold ==
    (pc = "dilate_ternary_narr_image" /\ result.kind = "matrix")
    => \A c \in ContestedCells :
           frontal_grid_matrix[c] =
               IF OriginalWarmDistance(c) < OriginalColdDistance(c)
               THEN WARM_FRONT_INTEGER_ID
               ELSE COLD_FRONT_INTEGER_ID

\* C3 witness: a dilation has left one contested cell at equal distance
\* from both types and another one nearer to the warm front.
C3_Witness ==
    /\ pc = "dilate_ternary_narr_image"
    /\ result.kind = "matrix"
    /\ \E c \in ContestedCells :
           /\ OriginalWarmDistance(c) = OriginalColdDistance(c)
           /\ original_matrix[c] = NO_FRONT_INTEGER_ID
    /\ \E c \in ContestedCells :
           OriginalWarmDistance(c) < OriginalColdDistance(c)

\* C4: after dilate_binary_narr_image of a binary grid with buffer distance
\* d2, the cells that any smaller distance 0 < d1 <= d2 sets to 1 are all
\* set to 1.
C4_DilationMonotone ==
    (/\ pc = "dilate_binary_narr_image"
     /\ ~args.kernel_given
     /\ result.kind = "matrix")
    => \A d1 \in 1 .. args.distance :
           Ones(DilateBinaryNarrImage(frontal_grid_matrix,
                                      DistanceArgs(d1)).matrix)
               \subseteq Ones(result.matrix)

\* C4 witness: a binary grid with a front cell has been dilated with a
\* distance that sets strictly more cells than a smaller distance, which
\* itself sets more cells than the grid holds.
C4_Witness ==
    /\ pc = "dilate_binary_narr_image"
    /\ ~args.kernel_given
    /\ result.kind = "matrix"
    /\ \E d1 \in 1 .. args.distance :
           LET smaller == Ones(DilateBinaryNarrImage(
                                   frontal_grid_matrix,
                                   DistanceArgs(d1)).matrix)
           IN  /\ smaller # Ones(result.matrix)
               /\ smaller # Ones(frontal_grid_matrix)
\* C5: closing is idempotent on ternary grids: a call of
\* _close_frontal_grid_matrix on a grid that the previous call of
\* _close_frontal_grid_matrix returned leaves every cell as it is.
C5_ClosingIdempotent ==
    [][(/\ pc = "_close_frontal_grid_matrix"
        /\ pc' = "_close_frontal_grid_matrix")
       => frontal_grid_matrix' = frontal_grid_matrix]_vars

\* C5 witness: a closing has changed the caller's grid (it filled a gap).
C5_Witness ==
    /\ pc = "_close_frontal_grid_matrix"
    /\ frontal_grid_matrix # original_matrix
    /\ frontal_grid_matrix = CloseFrontalGridMatrix(frontal_grid_matrix)

\* The member cells of region k of a dictionary of regions.
RegionCells(regions, k) ==
    IndexPairs(regions.row_indices_by_region[k],
               regions.column_indices_by_region[k])

\* The family of member-cell sets of a dictionary of regions.
RegionFamily(regions) ==
    {RegionCells(regions, k) : k \in DOMAIN regions.front_type_by_region}

\* A grid with its rows reversed, its columns reversed, or both; the same
\* map takes a cell of the reversed grid back to the original grid.
ReverseCell(c, rows, columns) ==
    <<IF rows THEN NumRows - 1 - c[1] ELSE c[1],
      IF columns THEN NumCols - 1 - c[2] ELSE c[2]>>

ReverseMatrix(matrix, rows, columns) ==
    [c \in DOMAIN matrix |-> matrix[ReverseCell(c, rows, columns)]]

\* The regions extracted from the reversed original grid, mapped back.
FamilyThroughReversal(rows, columns) ==
    {{ReverseCell(c, rows, columns) : c \in region} :
        region \in RegionFamily(FrontalGridToRegions(
                                    ReverseMatrix(original_matrix, rows,
                                                  columns)))}

\* C6: the regions returned by frontal_grid_to_regions are non-empty and
\* pairwise disjoint, their union is the set of nonzero cells of the closed
\* grid, and extracting the regions of the grid with its rows, its columns
\* or both reversed gives, mapped back, the same family of cell sets.
C6_RegionsPartitionNonzeroCells ==
    pc = "frontal_grid_to_regions"
    => /\ \A k \in DOMAIN result.front_type_by_region :
              /\ Len(result.row_indices_by_region[k]) > 0
              /\ RegionCells(result, k) # {}
              /\ \A j \in DOMAIN result.front_type_by_region :
                     j # k => RegionCells(result, j) \cap RegionCells(result, k)
                                  = {}
       /\ UNION RegionFamily(result)
              = {c \in Cells : frontal_grid_matrix[c] # NO_FRONT_INTEGER_ID}
       /\ FamilyThroughReversal(TRUE, TRUE) = RegionFamily(result)
       /\ FamilyThroughReversal(TRUE, FALSE) = RegionFamily(result)
       /\ FamilyThroughReversal(FALSE, TRUE) = RegionFamily(result)

\* C6 witness: the extraction returned several regions, one of them of
\* several cells, from a grid that is not its own reversal.
C6_Witness ==
    /\ pc = "frontal_grid_to_regions"
    /\ Len(result.front_type_by_region) >= 2
    /\ \E k \in DOMAIN result.front_type_by_region :
           Cardinality(RegionCells(result, k)) >= 2
    /\ ReverseMatrix(original_matrix, TRUE, TRUE) # original_matrix

\* A set of cells is connected through neighbouring cells: no part of it
\* is without a neighbour in the rest.
IsConnected(cells) ==
    \A part \in SUBSET cells :
        (part # {} /\ part # cells)
        => \E c \in part : \E d \in cells \ part : Adjacent(c, d)

\* C7: every region returned by frontal_grid_to_regions is a connected
\* component of same-type cells: its cells carry one label in the closed
\* grid, they are connected, no neighbouring cell outside the region
\* carries that label, and the region's front type is that label's name,
\* "warm" or "cold", never the empty string.
C7_RegionsAreSameTypeComponents ==
    pc = "frontal_grid_to_regions"
    => \A k \in DOMAIN result.front_type_by_region :
           LET cells == RegionCells(result, k)
               type == result.front_type_by_region[k]
               label == IF type = WARM_FRONT_STRING_ID
                        THEN WARM_FRONT_INTEGER_ID
                        ELSE COLD_FRONT_INTEGER_ID
           IN  /\ type \in {WARM_FRONT_STRING_ID, COLD_FRONT_STRING_ID}
               /\ \A c \in cells : frontal_grid_matrix[c] = label
               /\ IsConnected(cells)
               /\ \A c \in cells : \A d \in Cells \ cells :
                      Adjacent(c, d) => frontal_grid_matrix[d] # label

\* C7 witness: a warm region and a cold region that touch were returned.
C7_Witness ==
    /\ pc = "frontal_grid_to_regions"
    /\ \E j, k \in DOMAIN result.front_type_by_region :
           /\ result.front_type_by_region[j] = WARM_FRONT_STRING_ID
           /\ result.front_type_by_region[k] = COLD_FRONT_STRING_ID
           /\ Cardinality(RegionCells(result, j)) >= 2
           /\ \E c \in RegionCells(result, j) :
                  \E d \in RegionCells(result, k) : Adjacent(c, d)

\* Two cells lie in one region of the returned dictionary.
InSameRegion(c, d) ==
    \E k \in DOMAIN result.front_type_by_region :
        c \in RegionCells(result, k) /\ d \in RegionCells(result, k)

\* C8 as stated: any two neighbouring nonzero cells of the closed grid lie
\* in one region, also when one is warm and the other cold.
C8_AllFrontsOneConnectivityClass ==
    pc = "frontal_grid_to_regions"
    => \A c, d \in Cells :
           (/\ Adjacent(c, d)
            /\ frontal_grid_matrix[c] # NO_FRONT_INTEGER_ID
            /\ frontal_grid_matrix[d] # NO_FRONT_INTEGER_ID)
           => InSameRegion(c, d)

\* C8 amended: two neighbouring nonzero cells of the closed grid lie in one
\* region exactly when they carry the same label; a warm cell and a cold
\* cell never share a region, so a warm blob touching a cold blob is
\* returned as two regions.
C8_ConnectivityPerFrontType ==
    pc = "frontal_grid_to_regions"
    => \A c, d \in Cells :
           (/\ frontal_grid_matrix[c] # NO_FRONT_INTEGER_ID
            /\ frontal_grid_matrix[d] # NO_FRONT_INTEGER_ID)
           => /\ Adjacent(c, d)
                 => (InSameRegion(c, d)
                     <=> frontal_grid_matrix[c] = frontal_grid_matrix[d])
              /\ frontal_grid_matrix[c] # frontal_grid_matrix[d]
                 => ~InSameRegion(c, d)

\* C8 witness: a warm cell next to a cold cell, returned in two regions.
C8_Witness ==
    /\ pc = "frontal_grid_to_regions"
    /\ \E c, d \in Cells :
           /\ Adjacent(c, d)
           /\ frontal_grid_matrix[c] = WARM_FRONT_INTEGER_ID
           /\ frontal_grid_matrix[d] = COLD_FRONT_INTEGER_ID
           /\ ~InSameRegion(c, d)
           /\ \E k \in DOMAIN result.front_type_by_region :
                  c \in RegionCells(result, k)
           /\ \E k \in DOMAIN result.front_type_by_region :
                  d \in RegionCells(result, k)
\* C9: get_frontal_types_over_grid labels every cell where binary_matrix is
\* true warm (1) if the advection -(u dtheta/dx + v dtheta/dy) is > 0 and
\* cold (2) if it is <= 0, zero included, and every other cell 0; with
\* u = 1, v = 0 and theta increasing along the columns every cell of the
\* front mask is cold.
C9_AdvectionSignDecidesType ==
    pc = "get_frontal_types_over_grid"
    => /\ \A c \in Cells :
              result.matrix[c] =
                  IF ~args.binary_matrix[c] THEN NO_FRONT_INTEGER_ID
                  ELSE IF 0 - (args.u[c] * XGradientTimes2dx(args.theta, c)
                                   * args.dy
                               + args.v[c] * YGradientTimes2dy(args.theta, c)
                                   * args.dx) > 0
                  THEN WARM_FRONT_INTEGER_ID
                  ELSE COLD_FRONT_INTEGER_ID
       /\ (/\ \A c \in Cells : args.u[c] = 1 /\ args.v[c] = 0
           /\ \A c, d \in Cells :
                  (c[1] = d[1] /\ c[2] < d[2]) => args.theta[c] < args.theta[d])
          => \A c \in Cells :
                 args.binary_matrix[c]
                 => result.matrix[c] = COLD_FRONT_INTEGER_ID

\* C9 witness: the returned grid holds a warm cell, a cold cell whose
\* advection is negative, a cold cell whose advection is exactly zero
\* although wind and gradient are not zero there, and a no-front cell.
C9_Witness ==
    /\ pc = "get_frontal_types_over_grid"
    /\ \E c \in Cells : result.matrix[c] = WARM_FRONT_INTEGER_ID
    /\ \E c \in Cells : /\ result.matrix[c] = COLD_FRONT_INTEGER_ID
                         /\ AdvectionTimes2dxdy(args, c) < 0
    /\ \E c \in Cells : /\ result.matrix[c] = COLD_FRONT_INTEGER_ID
                         /\ AdvectionTimes2dxdy(args, c) = 0
                         /\ args.u[c] # 0
                         /\ XGradientTimes2dx(args.theta, c) # 0
    /\ \E c \in Cells : result.matrix[c] = NO_FRONT_INTEGER_ID
\* The bounding box of the polyline of the last call, its extent widened
\* by one grid spacing, holds no grid x-coordinate or no grid y-coordinate.
BoundingBoxMissesGrid ==
    \/ \A k \in DOMAIN args.grid_point_x_coords :
           \/ args.grid_point_x_coords[k]
                  < MinOf(Range(args.polyline_x_coords))
                    - (args.grid_point_x_coords[2] - args.grid_point_x_coords[1])
           \/ args.grid_point_x_coords[k]
                  > MaxOfSet(Range(args.polyline_x_coords))
                    + (args.grid_point_x_coords[2] - args.grid_point_x_coords[1])
    \/ \A k \in DOMAIN args.grid_point_y_coords :
           \/ args.grid_point_y_coords[k]
                  < MinOf(Range(args.polyline_y_coords))
                    - (args.grid_point_y_coords[2] - args.grid_point_y_coords[1])
           \/ args.grid_point_y_coords[k]
                  > MaxOfSet(Range(args.polyline_y_coords))
                    + (args.grid_point_y_coords[2] - args.grid_point_y_coords[1])

\* C10: when the polyline's bounding box (its extent widened by one grid
\* spacing) holds no grid x-coordinate or no grid y-coordinate,
\* _polyline_to_grid_points returns an empty row array and an empty column
\* array and does not fail.
C10_EmptyBoundingBoxGivesEmptyArrays ==
    (/\ pc = "_polyline_to_grid_points"
     /\ IsValidLineString(args.polyline_x_coords, args.polyline_y_coords)
     /\ BoundingBoxMissesGrid)
    => /\ result.kind = "points"
       /\ result.rows = <<>>
       /\ result.columns = <<>>

\* The cells a scan of every grid point finds: those whose rectangle, half
\* a grid spacing to each side of the grid point, intersects or touches the
\* polyline of the last call.
FullGridScan ==
    {c \in Cells :
        CellMeetsPolyline(args.grid_point_x_coords[c[2] + 1],
                          args.grid_point_y_coords[c[1] + 1],
                          args.grid_point_x_coords[2] - args.grid_point_x_coords[1],
                          args.grid_point_y_coords[2] - args.grid_point_y_coords[1],
                          args.polyline_x_coords, args.polyline_y_coords)}

\* C11: for a valid polyline, the (row, column) pairs returned by
\* _polyline_to_grid_points are exactly the cells a scan of the full grid
\* finds, each a valid index of the grid and none returned twice; the
\* restriction to the bounding box drops no cell, also where the call
\* stops because the bounding box holds no grid point.
C11_BoundingBoxScanEqualsFullScan ==
    (/\ pc = "_polyline_to_grid_points"
     /\ IsValidLineString(args.polyline_x_coords, args.polyline_y_coords))
    => IF result.kind = "points"
       THEN /\ IndexPairs(result.rows, result.columns) = FullGridScan
            /\ Len(result.rows) = Cardinality(FullGridScan)
            /\ Len(result.columns) = Len(result.rows)
            /\ \A k \in DOMAIN result.rows :
                   /\ result.rows[k] \in Rows
                   /\ result.columns[k] \in Cols
       ELSE FullGridScan = {}

\* A polyline that starts outside the grid: the bounding box leaves out
\* grid rows and columns, and cells are returned, one of them touched only
\* on its boundary.
C11_Witness ==
    /\ pc = "_polyline_to_grid_points"
    /\ result.kind = "points"
    /\ Len(result.rows) >= 2
    /\ Len(result.rows) < Cardinality(Cells)
    /\ \E k \in DOMAIN args.polyline_x_coords : args.polyline_x_coords[k] < 0
    /\ \E k \in DOMAIN args.grid_point_x_coords :
           args.grid_point_x_coords[k]
               > MaxToConsider(args.polyline_x_coords,
                               args.grid_point_x_coords[2]
                                   - args.grid_point_x_coords[1])
    /\ \E k \in DOMAIN args.polyline_x_coords : args.polyline_x_coords[k] % 2 = 1

\* The front in row j of the table of the last call has first and last
\* vertices that match within the tolerance, in latitude and in longitude.
EndsMatchWithinTolerance(j) ==
    LET front == args.front_table[j]
        last == Len(front.latitudes_deg)
    IN  /\ front.latitudes_deg[1] - front.latitudes_deg[last] < TOLERANCE_DEG
        /\ front.latitudes_deg[last] - front.latitudes_deg[1] < TOLERANCE_DEG
        /\ front.longitudes_deg[1] - front.longitudes_deg[last]
               < TOLERANCE_DEG
        /\ front.longitudes_deg[last] - front.longitudes_deg[1]
               < TOLERANCE_DEG

\* The rows of the table of the last call that hold a front of the given
\* time whose ends do not match.
OpenFrontsAt(time) ==
    {j \in DOMAIN args.front_table :
        /\ args.front_table[j].unix_time_sec = time
        /\ ~EndsMatchWithinTolerance(j)}

\* The dilated raster of the front in row j, taken on its own.
RasterOfFront(j) ==
    PolylineToBinaryNarrGrid(args.front_table[j].latitudes_deg,
                             args.front_table[j].longitudes_deg,
                             args.dilation_distance_metres)

\* The label of cell c in row i of the returned table.
LabelInRow(i, c) ==
    IF c \in IndexPairs(result.rows[i].warm_front_row_indices,
                        result.rows[i].warm_front_column_indices)
    THEN WARM_FRONT_INTEGER_ID
    ELSE IF c \in IndexPairs(result.rows[i].cold_front_row_indices,
                             result.rows[i].cold_front_column_indices)
    THEN COLD_FRONT_INTEGER_ID
    ELSE NO_FRONT_INTEGER_ID

\* The label of cell c when the open fronts of the time of row i are
\* written in table order, the front of row j with the label labels[j], a
\* label of 0 writing nothing: that of the last front that covers c and
\* writes.
LabelOfLastFront(i, c, labels) ==
    LET writers == {j \in OpenFrontsAt(result.rows[i].unix_time_sec) :
                       /\ RasterOfFront(j).matrix[c] = ANY_FRONT_INTEGER_ID
                       /\ labels[j] # NO_FRONT_INTEGER_ID}
    IN  IF writers = {} THEN NO_FRONT_INTEGER_ID
        ELSE labels[MaxOfSet(writers)]

\* C12: in many_polylines_to_narr_grid a front whose first and last
\* vertices match within the tolerance contributes no cell and stops
\* nothing: the call fails only where an open front fails on its own, there
\* is one row for each time of the table, and every row holds exactly
\* what the open fronts of its time write, in table order.
C12_ClosedPolylineContributesNothing ==
    pc = "many_polylines_to_narr_grid"
    => /\ result.kind = "error"
              => \E j \in DOMAIN args.front_table :
                     /\ ~EndsMatchWithinTolerance(j)
                     /\ RasterOfFront(j).kind = "error"
       /\ result.kind = "table"
              => /\ {result.rows[i].unix_time_sec : i \in DOMAIN result.rows}
                        = {args.front_table[j].unix_time_sec :
                              j \in DOMAIN args.front_table}
                 /\ \A i \in DOMAIN result.rows : \A c \in Cells :
                        LabelInRow(i, c)
                            = LabelOfLastFront(
                                  i, c,
                                  [j \in DOMAIN args.front_table |->
                                      LabelWritten(args.front_table, i, j)])

\* A table with a front whose ends differ and match within the tolerance,
\* whose own raster is not empty, and an open front of the same time that
\* is rasterized; a cell of the closed front's raster stays without label.
C12_Witness ==
    /\ pc = "many_polylines_to_narr_grid"
    /\ result.kind = "table"
    /\ \E j, k \in DOMAIN args.front_table :
           /\ EndsMatchWithinTolerance(j)
           /\ args.front_table[j].longitudes_deg[1]
                  # args.front_table[j].longitudes_deg[
                        Len(args.front_table[j].longitudes_deg)]
           /\ ~EndsMatchWithinTolerance(k)
           /\ args.front_table[k].unix_time_sec
                  = args.front_table[j].unix_time_sec
           /\ \E i \in DOMAIN result.rows : \E c, e \in Cells :
                  /\ result.rows[i].unix_time_sec
                         = args.front_table[j].unix_time_sec
                  /\ RasterOfFront(j).kind = "matrix"
                  /\ RasterOfFront(j).matrix[c] = ANY_FRONT_INTEGER_ID
                  /\ LabelInRow(i, c) = NO_FRONT_INTEGER_ID
                  /\ LabelInRow(i, e) # NO_FRONT_INTEGER_ID

\* The label of the type of the front in row j of the table.
OwnLabel(j) ==
    IF args.front_table[j].front_type = WARM_FRONT_STRING_ID
    THEN WARM_FRONT_INTEGER_ID
    ELSE IF args.front_table[j].front_type = COLD_FRONT_STRING_ID
    THEN COLD_FRONT_INTEGER_ID
    ELSE NO_FRONT_INTEGER_ID

\* C13: in the table many_polylines_to_narr_grid returns, the cells of
\* every open front carry that front's own type (warm 1, cold 2), a later
\* front of the same time overwriting an earlier one, so that the row of a
\* valid time is a function of the fronts of that time alone.
C13_EachFrontLabelledWithOwnType ==
    (pc = "many_polylines_to_narr_grid" /\ result.kind = "table")
    => \A i \in DOMAIN result.rows : \A c \in Cells :
           LabelInRow(i, c)
               = LabelOfLastFront(i, c, [j \in DOMAIN args.front_table |->
                                            OwnLabel(j)])

\* The front in row j of the table is malformed: its ends do not match,
\* and the LineString of its projected vertices is not valid.
IsMalformedFront(j) ==
    LET xy == ProjectLatlngToXy(args.front_table[j].latitudes_deg,
                                args.front_table[j].longitudes_deg)
    IN  /\ ~EndsMatchWithinTolerance(j)
        /\ ~IsValidLineString(xy.x, xy.y)

\* C18: when the table holds a malformed front and every other open front
\* can be rasterized on its own, many_polylines_to_narr_grid returns the
\* table, with one row for each time, and does not fail.
C18_MalformedFrontIsSkipped ==
    (/\ pc = "many_polylines_to_narr_grid"
     /\ \E j \in DOMAIN args.front_table : IsMalformedFront(j)
     /\ \A j \in DOMAIN args.front_table :
            (~EndsMatchWithinTolerance(j) /\ ~IsMalformedFront(j))
                => RasterOfFront(j).kind = "matrix")
    => /\ result.kind = "table"
       /\ {result.rows[i].unix_time_sec : i \in DOMAIN result.rows}
              = {args.front_table[j].unix_time_sec :
                    j \in DOMAIN args.front_table}

\* floor(distance / grid spacing): the greatest whole number of grid
\* spacings within the distance.
WholeSpacingsWithin(distance) ==
    CHOOSE k \in 0 .. distance :
        k * GridSpacing <= distance /\ (k + 1) * GridSpacing > distance

\* The cells of a mask that are True.
TrueCells(mask) == {x \in DOMAIN mask.values : mask.values[x] = 1}

\* C14: the mask of buffer_distance_to_narr_mask is square with side
\* 2 * offset + 1, offset = floor(distance / grid spacing); a cell is True
\* iff its distance from the centre is <= the buffer distance (compared on
\* the squares); the centre is True; the mask is the same through the
\* reversal of its rows, of its columns and through transposition; and for
\* a distance of one grid spacing the True cells are the centre and its
\* four orthogonal neighbours.
C14_MaskIsDiscAroundCentre ==
    (pc = "buffer_distance_to_narr_mask" /\ result.kind = "mask")
    => LET mask == result.mask
           offset == WholeSpacingsWithin(args.distance)
           side == 2 * offset + 1
       IN  /\ mask.num_rows = side
           /\ mask.num_columns = side
           /\ DOMAIN mask.values = (0 .. (side - 1)) \X (0 .. (side - 1))
           /\ \A x \in DOMAIN mask.values :
                  /\ mask.values[x] \in {0, 1}
                  /\ mask.values[x] = 1
                         <=> GridSpacing * GridSpacing
                                 * ((x[1] - offset) * (x[1] - offset)
                                    + (x[2] - offset) * (x[2] - offset))
                                 <= args.distance * args.distance
                  /\ mask.values[x]
                         = mask.values[<<2 * offset - x[1], x[2]>>]
                  /\ mask.values[x]
                         = mask.values[<<x[1], 2 * offset - x[2]>>]
                  /\ mask.values[x] = mask.values[<<x[2], x[1]>>]
           /\ mask.values[<<offset, offset>>] = 1
           /\ args.distance = GridSpacing
                  => TrueCells(mask)
                         = {<<1, 1>>, <<0, 1>>, <<2, 1>>, <<1, 0>>, <<1, 2>>}

\* The mask of a distance of one grid spacing, and of a distance whose mask
\* has cells that are not True.
C14_Witness ==
    /\ pc = "buffer_distance_to_narr_mask"
    /\ result.kind = "mask"
    /\ args.distance >= GridSpacing
    /\ Cardinality(TrueCells(result.mask)) >= 5
    /\ \E x \in DOMAIN result.mask.values : result.mask.values[x] = 0

\* The undilated raster of the polyline of the last call of
\* polyline_to_binary_narr_grid: an error, or the cells its projection
\* crosses or touches.
UndilatedRaster ==
    LET xy == ProjectLatlngToXy(args.polyline_y_coords, args.polyline_x_coords)
    IN  PolylineToGridPoints([args EXCEPT !.polyline_x_coords = xy.x,
                                          !.polyline_y_coords = xy.y])

\* C15 as stated: with a distance of 0, buffer_distance_to_narr_mask
\* returns the mask of one grid spacing and polyline_to_binary_narr_grid
\* returns what it returns for a distance of one grid spacing.
C15_ZeroDistanceIsOneGridSpacing ==
    /\ (pc = "buffer_distance_to_narr_mask" /\ args.distance = 0)
           => result = [kind |-> "mask",
                        mask |-> BufferDistanceToNarrMask(GridSpacing)]
    /\ (pc = "polyline_to_binary_narr_grid"
            /\ args.dilation_distance_metres = 0)
           => result = PolylineToBinaryNarrGrid(args.polyline_y_coords,
                                                args.polyline_x_coords,
                                                GridSpacing)

\* C15, amended: a distance of 0 is coerced to 1 metre, less than a grid
\* spacing.  polyline_to_binary_narr_grid with a distance of 0 returns the
\* raster of the polyline without any dilation (or fails where the raster
\* fails), and buffer_distance_to_narr_mask with a distance of 0 fails.
C15_ZeroDistanceIsOneMetre ==
    /\ (pc = "buffer_distance_to_narr_mask" /\ args.distance = 0)
           => result = Error
    /\ (pc = "polyline_to_binary_narr_grid"
            /\ args.dilation_distance_metres = 0)
           => IF UndilatedRaster.kind = "error" THEN result = Error
              ELSE /\ result.kind = "matrix"
                   /\ \A c \in Cells :
                          result.matrix[c] = ANY_FRONT_INTEGER_ID
                              <=> c \in IndexPairs(UndilatedRaster.rows,
                                                   UndilatedRaster.columns)
                   /\ \A c \in Cells :
                          result.matrix[c] \in {NO_FRONT_INTEGER_ID,
                                                ANY_FRONT_INTEGER_ID}

\* polyline_to_binary_narr_grid has returned a raster for a distance of 0,
\* and a distance of one grid spacing gives a larger one.
C15_Witness ==
    /\ pc = "polyline_to_binary_narr_grid"
    /\ args.dilation_distance_metres = 0
    /\ result.kind = "matrix"
    /\ \E c \in Cells : result.matrix[c] = ANY_FRONT_INTEGER_ID
    /\ \E c \in Cells :
           /\ result.matrix[c] = NO_FRONT_INTEGER_ID
           /\ PolylineToBinaryNarrGrid(args.polyline_y_coords,
                                       args.polyline_x_coords,
                                       GridSpacing).matrix[c]
                  = ANY_FRONT_INTEGER_ID

\* C16: on a grid that holds a value outside {0, 1, 2},
\* frontal_grid_to_points and dilate_ternary_narr_image end in an error,
\* and so does dilate_binary_narr_image on a grid that holds a value
\* outside {0, 1}; no dictionary and no matrix is produced and the
\* caller's grid is as it was.
C16_InvalidLabelsAreRejected ==
    /\ (/\ pc \in {"frontal_grid_to_points", "dilate_ternary_narr_image"}
        /\ \E c \in Cells : original_matrix[c] \notin {0, 1, 2})
           => /\ result = Error
              /\ frontal_grid_dict = EmptyDict
              /\ frontal_grid_matrix = original_matrix
    /\ (/\ pc = "dilate_binary_narr_image"
        /\ \E c \in Cells : original_matrix[c] \notin {0, 1})
           => /\ result = Error
              /\ frontal_grid_matrix = original_matrix

\* dilate_ternary_narr_image was called, with a kernel that is valid, on a
\* grid that holds one front cell and a negative value.
C16_Witness ==
    /\ pc = "dilate_ternary_narr_image"
    /\ \E c \in Cells : original_matrix[c] < 0
    /\ \E c \in Cells : original_matrix[c] = COLD_FRONT_INTEGER_ID
    /\ args.kernel_given
    /\ IsValidKernel(args.kernel)
    /\ result = Error

\* The kernel passed to the last call holds a value outside {0, 1} or no
\* value of 1.
KernelIsUnusable ==
    /\ args.kernel_given
    /\ \/ \E x \in DOMAIN args.kernel.values :
              args.kernel.values[x] \notin {0, 1}
       \/ \A x \in DOMAIN args.kernel.values : args.kernel.values[x] # 1

\* C17: called with an explicit kernel that holds a value outside {0, 1}
\* or no True cell, dilate_binary_narr_image and dilate_ternary_narr_image
\* end in an error: no matrix is returned, dilated or not, and the
\* caller's grid is as it was.
C17_UnusableKernelIsRejected ==
    (/\ pc \in {"dilate_binary_narr_image", "dilate_ternary_narr_image"}
     /\ KernelIsUnusable)
    => /\ result = Error
       /\ frontal_grid_matrix = original_matrix

\* dilate_ternary_narr_image was called on a grid with a warm and a cold
\* cell and a kernel of zeros.
C17_Witness ==
    /\ pc = "dilate_ternary_narr_image"
    /\ KernelIsUnusable
    /\ \A x \in DOMAIN args.kernel.values : args.kernel.values[x] = 0
    /\ \E c, e \in Cells :
           /\ original_matrix[c] = WARM_FRONT_INTEGER_ID
           /\ original_matrix[e] = COLD_FRONT_INTEGER_ID
    /\ result = Error

\* C19: frontal_grid_to_regions and dilate_ternary_narr_image leave the
\* array the caller passed as it was before the call.
C19_CallerGridIsLeftUnchanged ==
    pc \in {"dilate_ternary_narr_image", "frontal_grid_to_regions"}
    => frontal_grid_matrix = original_matrix

\* The times passed to the last call are distinct.
TimesAreDistinct ==
    \A j, k \in DOMAIN args.valid_times_unix_sec :
        args.valid_times_unix_sec[j] = args.valid_times_unix_sec[k] => j = k

\* C20: when apply_separation_time returns, for distinct times, the
\* returned times are the times passed, in increasing order; the label
\* returned with a time is the label passed with that time or "no front";
\* and the same (time, label) pairs passed in any other order give the
\* same two arrays.
C20_SeparationSortsByTime ==
    (/\ pc = "apply_separation_time"
     /\ result.kind = "separated"
     /\ TimesAreDistinct)
    => LET times == args.valid_times_unix_sec
           enums == args.front_type_enums
       IN  /\ Len(result.valid_times_unix_sec) = Len(times)
           /\ Len(result.front_type_enums) = Len(times)
           /\ Range(result.valid_times_unix_sec) = Range(times)
           /\ \A k \in 1 .. (Len(times) - 1) :
                  result.valid_times_unix_sec[k]
                      < result.valid_times_unix_sec[k + 1]
           /\ \A k \in DOMAIN times : \A j \in DOMAIN times :
                  times[j] = result.valid_times_unix_sec[k]
                      => result.front_type_enums[k]
                             \in {enums[j], NO_FRONT_ENUM}
           /\ \A q \in Permutations(DOMAIN times) :
                  \A p \in ArgSort(TakeAt(times, q)) :
                      ApplySeparationTime(TakeAt(enums, q), TakeAt(times, q),
                                          args.separation_time_sec, p)
                          = result

\* Times passed out of order, with two labels of one type closer than the
\* separation time: the call returns, a label is turned into "no front"
\* and a label of a front is kept.
C20_Witness ==
    /\ pc = "apply_separation_time"
    /\ result.kind = "separated"
    /\ TimesAreDistinct
    /\ Len(args.valid_times_unix_sec) >= 3
    /\ args.valid_times_unix_sec # result.valid_times_unix_sec
    /\ \E k \in DOMAIN result.front_type_enums :
           result.front_type_enums[k] # NO_FRONT_ENUM
    /\ Cardinality({k \in DOMAIN result.front_type_enums :
                       result.front_type_enums[k] = NO_FRONT_ENUM})
           > Cardinality({k \in DOMAIN args.front_type_enums :
                             args.front_type_enums[k] = NO_FRONT_ENUM})

\* The number of labels of the given front type.
NumLabels(enums, front_type_enum) ==
    Cardinality({k \in DOMAIN enums : enums[k] = front_type_enum})

\* The while-loop of _apply_sep_time_one_front_type is running or over.
InOrAfterLoop ==
    /\ pc \in {"while", "_apply_sep_time_one_front_type"}
    /\ result # Error

\* C21: _apply_sep_time_one_front_type changes only labels of the relevant
\* front type and only to "no front": at every iteration of its loop and
\* at its return every position whose input label is not of the relevant
\* type has its input label, every position whose input label is of the
\* relevant type has that label or "no front", the array returned has the
\* length of the input, and no step changes the valid times.
C21_OnlyRelevantLabelsBecomeNoFront ==
    /\ [](InOrAfterLoop =>
            /\ Len(args.front_type_enums) = Len(args.input_front_type_enums)
            /\ \A k \in DOMAIN args.input_front_type_enums :
                   IF args.input_front_type_enums[k]
                          # args.relevant_front_type_enum
                   THEN args.front_type_enums[k]
                            = args.input_front_type_enums[k]
                   ELSE args.front_type_enums[k]
                            \in {args.relevant_front_type_enum,
                                 NO_FRONT_ENUM}
            /\ (pc = "_apply_sep_time_one_front_type" =>
                    result.front_type_enums = args.front_type_enums))
    /\ [][args'.valid_times_unix_sec = args.valid_times_unix_sec]_vars

\* The function has returned after turning a label of the relevant type
\* into "no front", next to a front of the other type that it kept.
C21_Witness ==
    /\ pc = "_apply_sep_time_one_front_type"
    /\ result # Error
    /\ \E k \in DOMAIN args.input_front_type_enums :
           /\ args.input_front_type_enums[k] = args.relevant_front_type_enum
           /\ result.front_type_enums[k] = NO_FRONT_ENUM
    /\ \E k \in DOMAIN args.input_front_type_enums :
           /\ args.input_front_type_enums[k]
                  \notin {args.relevant_front_type_enum, NO_FRONT_ENUM}
           /\ args.valid_times_unix_sec[k]
                  < args.valid_times_unix_sec[1] + args.separation_time_sec

\* C26: the loop of _apply_sep_time_one_front_type ends for every input
\* of two or more times: an iteration that does not leave the loop
\* lowers the number of labels of the relevant type, the loop is never
\* in more than (that number in the input + 1) iterations, and the
\* function returns.
C26_LoopTerminates ==
    /\ [][(pc = "while" /\ pc' = "while") =>
              NumLabels(args'.front_type_enums,
                        args.relevant_front_type_enum)
                  < NumLabels(args.front_type_enums,
                              args.relevant_front_type_enum)]_vars
    /\ [](InOrAfterLoop =>
              result.num_iterations
                  <= NumLabels(args.input_front_type_enums,
                               args.relevant_front_type_enum) + 1)
    /\ <>(pc = "_apply_sep_time_one_front_type")

\* The function has returned after three iterations, two of which removed
\* labels.
C26_Witness ==
    /\ pc = "_apply_sep_time_one_front_type"
    /\ result # Error
    /\ result.num_iterations = 3

\* apply_separation_time has returned its two arrays.
HasSeparated ==
    /\ pc = "apply_separation_time"
    /\ result # Error

\* The labels of the caller in an order argsort can give that puts the
\* times in the order returned.
SortedInputLabels ==
    {TakeAt(args.front_type_enums, p) :
        p \in {q \in ArgSort(args.valid_times_unix_sec) :
                  TakeAt(args.valid_times_unix_sec, q)
                      = result.valid_times_unix_sec}}

\* The pass for one front type alone on the given time-sorted labels.
SinglePass(sorted_enums, front_type_enum) ==
    SeparateUntilStable(sorted_enums, result.valid_times_unix_sec,
                        args.separation_time_sec, front_type_enum)

\* C22: the passes for warm and for cold fronts are independent: in the
\* result of apply_separation_time a warm label is kept iff the warm pass
\* alone on the time-sorted input keeps it, a cold label is kept iff the
\* cold pass alone keeps it, "no front" stays, and the cold pass followed
\* by the warm pass gives the same labels.
C22_PassesAreIndependent ==
    HasSeparated =>
        \E sorted_enums \in SortedInputLabels :
            /\ result.front_type_enums =
                   [k \in DOMAIN sorted_enums |->
                       IF sorted_enums[k] = NO_FRONT_ENUM THEN NO_FRONT_ENUM
                       ELSE SinglePass(sorted_enums, sorted_enums[k])[k]]
            /\ result.front_type_enums =
                   SinglePass(SinglePass(sorted_enums, COLD_FRONT_ENUM),
                              WARM_FRONT_ENUM)

\* A label of one type was removed while a label of the other type, at a
\* time within the separation time of the first label, was kept.
C22_Witness ==
    /\ HasSeparated
    /\ \E sorted_enums \in SortedInputLabels :
       \E k, m \in DOMAIN sorted_enums :
           /\ sorted_enums[k] # NO_FRONT_ENUM
           /\ result.front_type_enums[k] = NO_FRONT_ENUM
           /\ result.front_type_enums[m]
                  \notin {NO_FRONT_ENUM, sorted_enums[k]}
           /\ result.valid_times_unix_sec[m]
                  < result.valid_times_unix_sec[1] + args.separation_time_sec

\* C24: after apply_separation_time any two positions that both keep a
\* warm-front label, and any two that both keep a cold-front label, have
\* valid times at least separation_time_sec apart.
C24_KeptLabelsAreSeparated ==
    HasSeparated =>
        \A j, k \in DOMAIN result.front_type_enums :
            (/\ j < k
             /\ result.front_type_enums[j] # NO_FRONT_ENUM
             /\ result.front_type_enums[j] = result.front_type_enums[k])
            => result.valid_times_unix_sec[k] - result.valid_times_unix_sec[j]
                   >= args.separation_time_sec

\* Of three labels of one type the call removed one and kept two.
C24_Witness ==
    /\ HasSeparated
    /\ \E front_type_enum \in {WARM_FRONT_ENUM, COLD_FRONT_ENUM} :
           /\ NumLabels(args.front_type_enums, front_type_enum) = 3
           /\ NumLabels(result.front_type_enums, front_type_enum) = 2

\* C25: apply_separation_time removes a label only when justified: in a
\* time series every position whose label became "no front" has, in the
\* returned array, a kept label of the same type at an earlier time less
\* than separation_time_sec before it.
C25_RemovalIsJustified ==
    HasSeparated =>
        \A k \in DOMAIN result.front_type_enums :
            (/\ args.front_type_enums[k] # NO_FRONT_ENUM
             /\ result.front_type_enums[k] = NO_FRONT_ENUM)
            => \E j \in 1 .. (k - 1) :
                   /\ result.front_type_enums[j] = args.front_type_enums[k]
                   /\ args.valid_times_unix_sec[k]
                          - args.valid_times_unix_sec[j]
                          < args.separation_time_sec

\* The kernel a dilation call uses.
KernelUsed ==
    IF args.kernel_given THEN args.kernel
    ELSE BufferDistanceToNarrMask(args.distance)

\* The centre cell of the kernel used, the anchor of cv2.dilate, is on.
KernelCentreIsOn ==
    LET centre == <<KernelUsed.num_rows \div 2, KernelUsed.num_columns \div 2>>
    IN  /\ centre \in DOMAIN KernelUsed.values
        /\ KernelUsed.values[centre] = 1

\* The final cold and warm masks of the call on the caller's grid.
FinalMasks ==
    ResolveBothFronts(
        original_matrix,
        Cv2Dilate(BinaryMatrixOf(original_matrix, COLD_FRONT_INTEGER_ID),
                  KernelUsed),
        Cv2Dilate(BinaryMatrixOf(original_matrix, WARM_FRONT_INTEGER_ID),
                  KernelUsed))

\* dilate_ternary_narr_image has returned a matrix for a kernel whose
\* centre is on.
HasDilatedWithCentreOn ==
    /\ pc = "dilate_ternary_narr_image"
    /\ result.kind = "matrix"
    /\ KernelCentreIsOn

\* C27: for a kernel whose centre cell is on, dilate_ternary_narr_image
\* keeps the labels it was given: every cell warm before is warm after,
\* every cell cold before is cold after, and no cell is in both the final
\* warm mask and the final cold mask; every kernel built from a dilation
\* distance has its centre on.
C27_DilationKeepsOriginalLabels ==
    /\ (/\ pc = "dilate_ternary_narr_image"
        /\ result.kind = "matrix"
        /\ ~args.kernel_given) => KernelCentreIsOn
    /\ HasDilatedWithCentreOn =>
           /\ \A c \in Cells :
                  original_matrix[c] # NO_FRONT_INTEGER_ID
                      => result.matrix[c] = original_matrix[c]
           /\ FinalMasks.cold \cap FinalMasks.warm = {}

\* A warm cell and a cold cell of the input each lie in the dilated mask
\* of the other type, and some empty cell lies in both.
C27_Witness ==
    /\ HasDilatedWithCentreOn
    /\ \E w, c, e \in Cells :
           /\ original_matrix[w] = WARM_FRONT_INTEGER_ID
           /\ original_matrix[c] = COLD_FRONT_INTEGER_ID
           /\ original_matrix[e] = NO_FRONT_INTEGER_ID
           /\ {w, c, e} \subseteq
                  ResolveNothing(
                      original_matrix,
                      Cv2Dilate(BinaryMatrixOf(original_matrix,
                                               COLD_FRONT_INTEGER_ID),
                                KernelUsed),
                      Cv2Dilate(BinaryMatrixOf(original_matrix,
                                               WARM_FRONT_INTEGER_ID),
                                KernelUsed)).cold
           /\ {w, c, e} \subseteq
                  ResolveNothing(
                      original_matrix,
                      Cv2Dilate(BinaryMatrixOf(original_matrix,
                                               COLD_FRONT_INTEGER_ID),
                                KernelUsed),
                      Cv2Dilate(BinaryMatrixOf(original_matrix,
                                               WARM_FRONT_INTEGER_ID),
                                KernelUsed)).warm

\* The label changes that closing may make.
AllowedLabelChanges ==
    {<<NO_FRONT_INTEGER_ID, WARM_FRONT_INTEGER_ID>>,
     <<NO_FRONT_INTEGER_ID, COLD_FRONT_INTEGER_ID>>,
     <<WARM_FRONT_INTEGER_ID, COLD_FRONT_INTEGER_ID>>}

\* C28: a call of _close_frontal_grid_matrix never turns a front cell into
\* "no front" and never changes a cold cell; a cell in both the closed
\* warm mask and the closed cold mask becomes cold; the only label changes
\* are 0 -> warm, 0 -> cold and warm -> cold.
C28_ClosingOnlyAddsFrontsAndColdWins ==
    [][pc' = "_close_frontal_grid_matrix" =>
          \A c \in Cells :
              /\ frontal_grid_matrix[c] # NO_FRONT_INTEGER_ID
                     => frontal_grid_matrix'[c] # NO_FRONT_INTEGER_ID
              /\ frontal_grid_matrix[c] = COLD_FRONT_INTEGER_ID
                     => frontal_grid_matrix'[c] = COLD_FRONT_INTEGER_ID
              /\ (/\ c \in BinaryErosion(BinaryDilation(
                               CellsWith(frontal_grid_matrix,
                                         WARM_FRONT_INTEGER_ID)))
                  /\ c \in BinaryErosion(BinaryDilation(
                               CellsWith(frontal_grid_matrix,
                                         COLD_FRONT_INTEGER_ID))))
                     => frontal_grid_matrix'[c] = COLD_FRONT_INTEGER_ID
              /\ frontal_grid_matrix'[c] # frontal_grid_matrix[c]
                     => <<frontal_grid_matrix[c], frontal_grid_matrix'[c]>>
                            \in AllowedLabelChanges]_vars

\* Closing has turned a warm cell of the caller's grid into a cold one.
C28_Witness ==
    /\ pc = "_close_frontal_grid_matrix"
    /\ \E c \in Cells :
           /\ original_matrix[c] = WARM_FRONT_INTEGER_ID
           /\ frontal_grid_matrix[c] = COLD_FRONT_INTEGER_ID

\* C23: writing gridded counts and reading them back returns the hours
\* and the months that were written, and hours=None and months=None are
\* each read back as None.
C23_FiltersSurviveRoundTrip ==
    pc = "read_gridded_counts" =>
        /\ result.hours = args.hours
        /\ result.months = args.months

\* A filter call has returned indices.
HasFiltered ==
    /\ pc \in {"filter_by_hour", "filter_by_month"}
    /\ result # Error

\* The hour or the month, by the call made, of the time at index k (from 0).
FilteredValueAt(k) ==
    IF pc = "filter_by_hour"
    THEN (args.all_times_unix_sec[k + 1] \div 3600) % 24
    ELSE CHOOSE m \in 1 .. 12 :
             LET day == (args.all_times_unix_sec[k + 1] \div 86400) % 365
             IN  /\ DaysBeforeMonth[m] <= day
                 /\ (m = 12 \/ day < DaysBeforeMonth[m + 1])

\* The requested values that some time has.
MatchingValues(values_to_keep) ==
    {v \in Range(values_to_keep) :
        \E k \in 0 .. (Len(args.all_times_unix_sec) - 1) :
            FilteredValueAt(k) = v}

\* The result of the call made, for other values to keep.
FilterResultFor(values_to_keep) ==
    IF pc = "filter_by_hour"
    THEN FilterByHour(args.all_times_unix_sec, values_to_keep)
    ELSE FilterByMonth(args.all_times_unix_sec, values_to_keep)

\* C30: filter_by_hour (filter_by_month) returns, in ascending order and
\* without duplicates, exactly the indices k for which the UTC hour (the
\* calendar month) of all_times_unix_sec[k] is one of the values to keep;
\* any accepted values to keep with the same matching values, in any
\* order, give the same result.
C30_FilterKeepsExactlyMatchingIndices ==
    HasFiltered =>
        /\ \A i \in 1 .. (Len(result.indices) - 1) :
               result.indices[i] < result.indices[i + 1]
        /\ Range(result.indices) =
               {k \in 0 .. (Len(args.all_times_unix_sec) - 1) :
                   FilteredValueAt(k) \in Range(args.values_to_keep)}
        /\ \A other \in SeqsUpTo(InputValuesToKeep, MaxFilterValues) :
               (/\ FilterResultFor(other) # Error
                /\ MatchingValues(other)
                       = MatchingValues(args.values_to_keep))
               => FilterResultFor(other) = result

\* filter_by_month has kept two times and dropped an earlier one, for two
\* months asked for in descending order.
C30_Witness ==
    /\ pc = "filter_by_month"
    /\ result # Error
    /\ Len(args.values_to_keep) = 2
    /\ args.values_to_keep[1] > args.values_to_keep[2]
    /\ Len(result.indices) >= 1
    /\ Len(result.indices) < Len(args.all_times_unix_sec)
    /\ MatchingValues(args.values_to_keep) # Range(args.values_to_keep)

\* The valid times (as indices from 0) of chunk c, chunks counted from 0.
ChunkTimes(c) ==
    {i \in 0 .. (Len(args.valid_times_unix_sec) - 1) :
        i \div args.num_times_per_output_file = c}

\* The chunks in which some time gave examples.
ChunksWithExamples ==
    {c \in 0 .. (Len(args.valid_times_unix_sec) - 1) :
        \E i \in ChunkTimes(c) :
            args.valid_times_unix_sec[i + 1] \in args.times_with_examples}

\* The file that chunk c is to give: named by its first and last valid
\* time, holding the examples of its times in time order.
FileOfChunk(c) ==
    [first_time_unix_sec |->
         args.valid_times_unix_sec[MinOf(ChunkTimes(c)) + 1],
     last_time_unix_sec |->
         args.valid_times_unix_sec[MaxOfSet(ChunkTimes(c)) + 1],
     example_dict |->
         [kind |-> "example_dict",
          example_times |->
              SortedValues({args.valid_times_unix_sec[i + 1] :
                               i \in ChunkTimes(c)}
                               \cap args.times_with_examples)]]

\* C29: _run splits the valid times into consecutive chunks of
\* num_times_per_output_file times (the last may be shorter); when it
\* returns, the files written are exactly one per chunk in which some time
\* gave examples, each named by the first and last valid time of its chunk
\* and holding the examples of the chunk's times in time order, so the
\* examples of every time are in exactly one file; and a file, once
\* written, is not changed.
C29_OneFilePerChunkWithExamples ==
    /\ []((pc = "_run" /\ result # Error) =>
              result.files = {FileOfChunk(c) : c \in ChunksWithExamples})
    /\ [][(pc = "for" /\ pc' \in {"for", "_run"}) =>
              result.files \subseteq result'.files]_vars

\* The run has written two files and none for a chunk in between without
\* examples; one file holds the examples of two times, and the last chunk
\* is shorter than the others.
C29_Witness ==
    /\ pc = "_run"
    /\ result # Error
    /\ Cardinality(result.files) = 2
    /\ \E f \in result.files : Len(f.example_dict.example_times) = 2
    /\ \E c \in 1 .. (Len(args.valid_times_unix_sec) - 1) :
           /\ ChunkTimes(c) # {}
           /\ c \notin ChunksWithExamples
           /\ (c - 1) \in ChunksWithExamples
           /\ (c + 1) \in ChunksWithExamples
    /\ Len(args.valid_times_unix_sec) % args.num_times_per_output_file # 0

===========================================================================
